---- MODULE Spec2Model ----
(***************************************************************************)
(* A model of the streaming CSS tokenizer CSSParser.  The parser object is *)
(* the record css; every lexical state ($input, $ident, ...) is an         *)
(* operator from (parser, code point) to parser, and the dispatcher Lex    *)
(* calls the operator the field lex names, re-entrantly, as the code does. *)
(* Typed arrays keep their JavaScript semantics: a write outside the       *)
(* array is dropped, a read outside it yields undefined, Uint32 stores     *)
(* wrap.  A thrown exception (RangeError) is the field thrown.             *)
(***************************************************************************)
EXTENDS Integers, Sequences, FiniteSets, TLC

VARIABLES css, opts, input, ended, mode, lexer

vars == <<css, opts, input, ended, mode, lexer>>

(***************************************************************************)
(* Bounds of the model.                                                    *)
(***************************************************************************)
MaxLen == 4

MaxChunk == 2

MaxDepth == 12

(***************************************************************************)
(* Program constants.                                                      *)
(***************************************************************************)
AT_KEYWORD_TOKEN == 0

BAD_STRING_TOKEN == 1

BAD_URL_TOKEN == 2

CDC_TOKEN == 3

CDO_TOKEN == 4

COLON_TOKEN == 5

COMMA_TOKEN == 6

DELIM_TOKEN == 7

DIMENSION_TOKEN == 8

FUNCTION_TOKEN == 9

HASH_TOKEN == 10

IDENT_TOKEN == 11

LEFT_BRACE_TOKEN == 12

LEFT_BRACKET_TOKEN == 13

LEFT_PARENTHESIS_TOKEN == 14

NUMBER_TOKEN == 15

PERCENTAGE_TOKEN == 16

RIGHT_BRACE_TOKEN == 17

RIGHT_BRACKET_TOKEN == 18

RIGHT_PARENTHESIS_TOKEN == 19

SEMICOLON_TOKEN == 20

STRING_TOKEN == 21

URL_TOKEN == 22

WHITESPACE_TOKEN == 23

COMMENT_TOKEN == 24

EOF_SENTINEL == 1114112

(***************************************************************************)
(* JavaScript values.  Undefined is what a read outside a typed array      *)
(* yields; it is an integer no code point or index can equal, so that it   *)
(* compares unequal to every case label and fails every range test, as     *)
(* undefined does.  A Uint32 element holds v mod 2^32: a negative number n *)
(* written to one is kept as n and stands for n + 2^32.                    *)
(***************************************************************************)
Undefined == -2000000000

NaN == <<0, -1000000>>

ToUint32(v) == IF v = Undefined THEN 0 ELSE v

U32Less(a, b) ==
  IF a >= 0 /\ b >= 0 THEN a < b
  ELSE IF a < 0 /\ b < 0 THEN a < b
  ELSE a >= 0

Max(a, b) == IF a >= b THEN a ELSE b

Min(a, b) == IF a <= b THEN a ELSE b

RECURSIVE Zeros(_)
Zeros(n) == IF n <= 0 THEN <<>> ELSE <<0>> \o Zeros(n - 1)

\* arr[idx] = val on a typed array of cap elements whose written prefix is arr
TAWrite(arr, cap, idx, val) ==
  IF idx < 0 \/ idx >= cap THEN arr
  ELSE IF idx < Len(arr) THEN [arr EXCEPT ![idx + 1] = val]
  ELSE arr \o Zeros(idx - Len(arr)) \o <<val>>

\* arr[idx] of a typed array of cap elements
TARead(arr, cap, idx) ==
  IF idx < 0 \/ idx >= cap THEN Undefined
  ELSE IF idx < Len(arr) THEN arr[idx + 1]
  ELSE 0

\* arr.subarray(start, end): a negative index counts from the array's end,
\* an undefined one is 0, a Uint32 value of 2^31 or more lies beyond the array
RelIndex(i, cap, isU32) ==
  IF i = Undefined THEN 0
  ELSE IF i < 0 THEN (IF isU32 THEN cap ELSE Max(cap + i, 0))
  ELSE Min(i, cap)

RECURSIVE ReadRange(_, _, _, _)
ReadRange(arr, cap, from, to) ==
  IF from >= to THEN <<>>
  ELSE <<TARead(arr, cap, from)>> \o ReadRange(arr, cap, from + 1, to)

Subarray(arr, cap, start, end, startIsU32) ==
  ReadRange(arr, cap, RelIndex(start, cap, startIsU32), RelIndex(end, cap, FALSE))

(***************************************************************************)
(* Code point classes.                                                     *)
(***************************************************************************)
isDigit(cp) == cp >= 48 /\ cp <= 57

\* isHex without its lower-case cases a..f
isHex_NoLowerCase(cp) ==
  \/ cp >= 48 /\ cp <= 57
  \/ cp >= 65 /\ cp <= 70

isHex(cp) ==
  \/ cp >= 48 /\ cp <= 57
  \/ cp >= 65 /\ cp <= 70
  \/ cp >= 97 /\ cp <= 102

isNameStart(cp) ==
  \/ cp >= 65 /\ cp <= 90
  \/ cp = 95
  \/ cp >= 97 /\ cp <= 122
  \/ cp >= 128

isNameContinue(cp) ==
  \/ cp = 45
  \/ cp >= 48 /\ cp <= 57
  \/ cp >= 65 /\ cp <= 90
  \/ cp = 95
  \/ cp >= 97 /\ cp <= 122
  \/ cp >= 128

isWhitespace(cp) == cp \in {9, 10, 32}

isNonPrintable(cp) ==
  \/ cp >= 0 /\ cp <= 8
  \/ cp = 11
  \/ cp >= 14 /\ cp <= 31
  \/ cp = 127

\* normalizeEscapeCP without its test of the surrogate range
normalizeEscapeCP_KeepsSurrogates(cp) ==
  IF cp = 0 \/ cp > 1114111 THEN 65533
  ELSE cp

normalizeEscapeCP(cp) ==
  IF cp = 0 \/ cp > 1114111 THEN 65533
  ELSE IF cp > 57343 THEN cp
  ELSE IF cp > 55295 THEN 65533
  ELSE cp

\* cp & 0b1000000 ? cp + 0x09 & 0b1111 : cp ^ 0b110000, on hex digits
toHexValue(cp) ==
  IF (cp \div 64) % 2 = 1 THEN (cp + 9) % 16 ELSE cp - 48

(***************************************************************************)
(* Numbers.  A finite double is <<m, e>>, standing for m * 10^e, with m    *)
(* not divisible by 10 (0 is <<0, 0>>); two decimal texts parse to the     *)
(* same double exactly when they give the same pair, at the lengths the    *)
(* model reaches.  NaN is a pair no text yields.                           *)
(***************************************************************************)
RECURSIVE Pow10(_)
Pow10(n) == IF n <= 0 THEN 1 ELSE 10 * Pow10(n - 1)

RECURSIVE NormNumber(_, _)
NormNumber(m, e) ==
  IF m = 0 THEN <<0, 0>>
  ELSE IF m % 10 = 0 THEN NormNumber(m \div 10, e + 1)
  ELSE <<m, e>>

RECURSIVE DigitRun(_, _)
\* the index just past the run of digits of t that starts at index i
DigitRun(t, i) ==
  IF i <= Len(t) /\ isDigit(t[i]) THEN DigitRun(t, i + 1) ELSE i

RECURSIVE DigitsValue(_, _, _, _)
\* the digits t[i .. j-1] read as a decimal number, after acc
DigitsValue(t, i, j, acc) ==
  IF i >= j THEN acc ELSE DigitsValue(t, i + 1, j, 10 * acc + (t[i] - 48))

RECURSIVE SkipStrWhiteSpace(_, _)
SkipStrWhiteSpace(t, i) ==
  IF i <= Len(t) /\ t[i] \in {9, 10, 11, 12, 13, 32, 160, 8232, 8233, 65279}
  THEN SkipStrWhiteSpace(t, i + 1)
  ELSE i

\* Number.parseFloat of the text t: the longest prefix that is a decimal
\* literal (sign, digits, fraction, exponent), NaN when there is none
parseFloat(t) ==
  LET Result(neg, i1, i2, i3, nFrac, expS) ==
        IF (i2 - i1) + nFrac = 0 THEN NaN
        ELSE NormNumber((IF neg THEN -1 ELSE 1)
                          * (DigitsValue(t, i1, i2, 0) * Pow10(nFrac)
                             + (IF nFrac > 0 THEN DigitsValue(t, i2 + 1, i3, 0) ELSE 0)),
                        expS - nFrac)
      \* the exponent whose digits are t[i4 .. i5-1]; none when there is no digit
      Exponent(i4, i5, negE) ==
        IF i5 <= i4 THEN 0
        ELSE (IF negE THEN -1 ELSE 1) * DigitsValue(t, i4, i5, 0)
      ExponentFrom(i4, negE) == Exponent(i4, DigitRun(t, i4), negE)
      ExponentAt(i3) ==
        IF ~(i3 <= Len(t) /\ t[i3] \in {69, 101}) THEN 0
        ELSE IF i3 + 1 <= Len(t) /\ t[i3 + 1] \in {43, 45}
        THEN ExponentFrom(i3 + 2, t[i3 + 1] = 45)
        ELSE ExponentFrom(i3 + 1, FALSE)
      Fraction(neg, i1, i2, i3) ==
        Result(neg, i1, i2, i3, IF i3 > i2 THEN i3 - (i2 + 1) ELSE 0, ExponentAt(i3))
      Integer(neg, i1, i2) ==
        Fraction(neg, i1, i2,
                 IF i2 <= Len(t) /\ t[i2] = 46 THEN DigitRun(t, i2 + 1) ELSE i2)
      Sign(i0) ==
        IF i0 <= Len(t) /\ t[i0] \in {43, 45}
        THEN Integer(t[i0] = 45, i0 + 1, DigitRun(t, i0 + 1))
        ELSE Integer(FALSE, i0, DigitRun(t, i0))
  IN Sign(SkipStrWhiteSpace(t, 1))

RECURSIVE Times10Mod32(_, _, _)
\* <<hi, lo>> (16-bit halves of a 32-bit word) times 10^e, modulo 2^32
Times10Mod32(hi, lo, e) ==
  IF e <= 0 THEN <<hi, lo>>
  ELSE Times10Mod32((hi * 10 + ((lo * 10) \div 65536)) % 65536,
                    (lo * 10) % 65536, e - 1)

\* the Int32Array store of a double: truncated, modulo 2^32, as a signed word
ToInt32(v) ==
  IF v = NaN THEN 0
  ELSE LET m   == v[1]
           e   == v[2]
           abs == IF m < 0 THEN 0 - m ELSE m
           mag == IF e < 0
                  THEN (IF 0 - e >= 10 THEN <<0, 0>>
                        ELSE LET q == abs \div Pow10(0 - e)
                             IN <<q \div 65536, q % 65536>>)
                  ELSE IF e >= 32 THEN <<0, 0>>
                  ELSE Times10Mod32(abs \div 65536, abs % 65536, e)
           pos == IF mag[1] >= 32768
                  THEN (mag[1] - 65536) * 65536 + mag[2]
                  ELSE mag[1] * 65536 + mag[2]
       IN IF m < 0 /\ pos # -2147483647 - 1 THEN 0 - pos ELSE pos

(***************************************************************************)
(* The parser object.                                                      *)
(***************************************************************************)
\* new CSSParser({ recover, size }): the typed arrays are allocated from
\* size (capacity is _source.length; positions hold 2 and tokens 4 per unit)
NewCSSParser(recover, size) ==
  [ column              |-> 0,
    error               |-> "undefined",
    errors              |-> <<>>,
    escapeCount         |-> 0,
    escapeCP            |-> 0,
    floatValues         |-> <<>>,
    floatValuesLength   |-> 0,
    hashTokenIsID       |-> FALSE,
    intValues           |-> <<>>,
    intValuesLength     |-> 0,
    lastCPWasCR         |-> FALSE,
    lex                 |-> "$input",
    lexAfterEscape      |-> "$input",
    line                |-> 0,
    numericTokenIsFloat |-> FALSE,
    numericTokenValue   |-> <<0, 0>>,
    positions           |-> <<>>,
    positionsLength     |-> 0,
    recover             |-> recover,
    source              |-> <<>>,
    sourceLength        |-> 0,
    stringDelimiter     |-> 0,
    stringValues        |-> <<>>,
    stringValuesLength  |-> 0,
    stringValuesStart   |-> 0,
    tokens              |-> <<>>,
    tokensLength        |-> 0,
    urlWhitespaceCount  |-> 0,
    capacity            |-> size,
    thrown              |-> "none",
    depth               |-> 0,
    doneCalls           |-> 0,
    \* history, read by the properties only
    stored              |-> <<>>,
    lexAfterError       |-> FALSE,
    tokenAfterError     |-> FALSE,
    hashPrefix          |-> <<>>,
    hashLog             |-> <<>>,
    fed                 |-> <<>>,
    reconsumed          |-> {} ]

throw(s, what) == IF s.thrown = "none" THEN [s EXCEPT !.thrown = what] ELSE s

\* _expandBuffers without its tokens.set(this._tokens)
expandBuffers_ForgetsTokens(s, min) ==
  [s EXCEPT !.capacity = 2 * Max(s.sourceLength, min), !.tokens = <<>>]

expandBuffers(s, min) ==
  [s EXCEPT !.capacity = 2 * Max(s.sourceLength, min)]

sourceAt(s, i) == TARead(s.source, s.capacity, i)

tokenAt(s, i) == TARead(s.tokens, 4 * s.capacity, i)

stringValueAt(s, i) == TARead(s.stringValues, s.capacity, i)

\* the end of the last token: _tokensLength === 0 ? 0 : _tokens[_tokensLength - 3]
lastTokenEnd(s) ==
  IF s.tokensLength = 0 THEN 0 ELSE tokenAt(s, s.tokensLength - 3)

\* String.fromCodePoint(...cps) throws for a value above 0x10FFFF
fromCodePointThrows(cps) == \E i \in 1..Len(cps) : cps[i] > 1114111

\* _fail(module, hash): builds the message (which can throw), then records
\* the error: appended when recovering, fatal otherwise
fail(s, hash) ==
  LET badTokenStart  == lastTokenEnd(s)
      wrapped        == badTokenStart # Undefined /\ badTokenStart < 0
      sourceStart    == IF badTokenStart = Undefined THEN Undefined
                        ELSE IF wrapped THEN badTokenStart
                        ELSE Max(badTokenStart - 15, 0)
      actualEnd      == s.positionsLength \div 2
      sourceEnd      == IF badTokenStart = Undefined THEN Undefined
                        ELSE IF wrapped THEN actualEnd
                        ELSE Min(sourceStart + 45, actualEnd)
      src            == Subarray(s.source, s.capacity, sourceStart, sourceEnd, TRUE)
      repeatNegative == IF badTokenStart = Undefined THEN FALSE
                        ELSE IF wrapped THEN TRUE
                        ELSE s.sourceLength - badTokenStart < 0
  IN IF fromCodePointThrows(src) \/ repeatNegative
     THEN throw(s, "RangeError in _fail")
     ELSE IF s.recover
     THEN [s EXCEPT !.errors = Append(@, hash)]
     ELSE [s EXCEPT !.error = hash]

\* what _fail returned: true when the error is fatal (or nothing, having thrown)
stops(f) == f.thrown # "none" \/ ~f.recover

stringValue(s, cp) ==
  [s EXCEPT !.stringValues = TAWrite(@, s.capacity, s.stringValuesLength, ToUint32(cp)),
            !.stringValuesLength = @ + 1]

\* this._tokens[this._tokensLength++] = v
pushTokenSlot(s, v) ==
  [s EXCEPT !.tokens = TAWrite(@, 4 * s.capacity, s.tokensLength, ToUint32(v)),
            !.tokensLength = @ + 1,
            !.tokenAfterError = @ \/ s.error # "undefined"]

commitNumber(s, offset) ==
  LET start == lastTokenEnd(s)
      end   == s.sourceLength - offset
      src   == Subarray(s.source, s.capacity, start, end, TRUE)
  IN IF fromCodePointThrows(src) THEN throw(s, "RangeError in _commitNumber")
     ELSE [s EXCEPT !.numericTokenValue = parseFloat(src)]

isStringValueURL(s) ==
  /\ s.stringValuesLength - s.stringValuesStart = 3
  /\ LET u == stringValueAt(s, s.stringValuesStart)
         r == stringValueAt(s, s.stringValuesStart + 1)
         l == stringValueAt(s, s.stringValuesStart + 2)
     IN /\ (u = 117 \/ u = 85)
        /\ (r = 114 \/ r = 82)
        /\ (r = 108 \/ l = 76)

(***************************************************************************)
(* Token creation.  Lex is the dispatcher this._lex(cp); the helpers call  *)
(* it to re-feed stored code points, as the code does.                     *)
(***************************************************************************)
RECURSIVE Lex(_, _)

\* this._lex(this._source[this._sourceLength++]); not reached after a throw
refeed(s) ==
  IF s.thrown # "none" THEN s
  ELSE [Lex([s EXCEPT !.sourceLength = @ + 1], sourceAt(s, s.sourceLength))
          EXCEPT !.fed = Append(s.fed, s.sourceLength)]

\* this._lex(this._source[this._sourceLength - 1])
refeedLast(s) ==
  IF s.thrown # "none" THEN s
  ELSE [Lex(s, sourceAt(s, s.sourceLength - 1))
          EXCEPT !.fed = Append(s.fed, s.sourceLength - 1)]

\* this._sourceLength--, this._lex(this._source[this._sourceLength - 1]),
\* this._sourceLength++
refeedBeforeLast(s) ==
  LET a == [s EXCEPT !.sourceLength = @ - 1]
      b == Lex(a, sourceAt(a, a.sourceLength - 1))
  IN IF b.thrown # "none" THEN b
     ELSE [b EXCEPT !.sourceLength = @ + 1, !.fed = Append(s.fed, a.sourceLength - 1)]

\* what a token helper called with an offset at the cursor s.sourceLength did
\* before it returned r: the indices it dispatched and where it left the
\* cursor, both relative to the cursor it was called at
reconsumption(s, helper, offset, r) ==
  IF r.thrown # "none" THEN r
  ELSE [r EXCEPT !.fed = <<>>,
                 !.reconsumed = @ \cup
                   {[helper |-> helper, offset |-> offset,
                     fed    |-> [k \in 1..Len(r.fed) |-> r.fed[k] - s.sourceLength],
                     cursor |-> r.sourceLength - s.sourceLength]}]

\* the token header: this._lex = this.$input and the slots kind and end
pushTokenHeader(s, tokenType, end) ==
  pushTokenSlot(pushTokenSlot([s EXCEPT !.lex = "$input"], tokenType), end)

addDelimTokenWithoutOffset(s, cp) ==
  [pushTokenSlot(pushTokenHeader(s, DELIM_TOKEN, s.sourceLength), cp)
     EXCEPT !.tokensLength = @ + 1]

addDelimTokenWithOffset(s, cp, offset) ==
  LET Refeed(a) == CASE offset = 3 -> refeed(refeed(refeed(a)))
                     [] offset = 2 -> refeed(refeed(a))
                     [] offset = 1 -> refeed(a)
                     [] OTHER      -> a
  IN reconsumption(s, "_addDelimTokenWithOffset", offset,
                   Refeed(addDelimTokenWithoutOffset([s EXCEPT !.sourceLength = @ - offset,
                                                               !.fed = <<>>], cp)))

\* the int/float flag and the value's index, appended after the unit
dimensionValue(s) ==
  IF s.numericTokenIsFloat
  THEN [stringValue(stringValue([s EXCEPT
                                   !.numericTokenIsFloat = FALSE,
                                   !.floatValues = TAWrite(@, s.capacity, s.floatValuesLength,
                                                           s.numericTokenValue)],
                                1),
                    s.floatValuesLength)
          EXCEPT !.floatValuesLength = @ + 1]
  ELSE [stringValue(stringValue([s EXCEPT
                                   !.intValues = TAWrite(@, s.capacity, s.intValuesLength,
                                                         ToInt32(s.numericTokenValue))],
                                0),
                    s.intValuesLength)
          EXCEPT !.intValuesLength = @ + 1]

\* _addDimensionToken moving the watermark to the unit's end, before the two
\* numeric entries
addDimensionToken_WatermarkAtUnitEnd(s, offset) ==
  LET Slots(a) == [pushTokenSlot(pushTokenSlot(a, a.stringValuesStart),
                                 a.stringValuesLength - 2)
                     EXCEPT !.stringValuesStart = a.stringValuesLength - 2]
      Refeed(f) == IF offset = 1 THEN refeedLast(f) ELSE refeedBeforeLast(f)
  IN reconsumption(s, "_addDimensionToken", offset,
                   Refeed(Slots(pushTokenHeader(dimensionValue([s EXCEPT !.fed = <<>>]),
                                                DIMENSION_TOKEN, s.sourceLength - offset))))

addDimensionToken(s, offset) ==
  LET Slots(a) == [pushTokenSlot(pushTokenSlot(a, a.stringValuesStart),
                                 a.stringValuesLength - 2)
                     EXCEPT !.stringValuesStart = a.stringValuesLength]
      Refeed(f) == IF offset = 1 THEN refeedLast(f) ELSE refeedBeforeLast(f)
  IN reconsumption(s, "_addDimensionToken", offset,
                   Refeed(Slots(pushTokenHeader(dimensionValue([s EXCEPT !.fed = <<>>]),
                                                DIMENSION_TOKEN, s.sourceLength - offset))))

addGeneralTokenWithoutOffset(s, tokenType) ==
  [pushTokenHeader(s, tokenType, s.sourceLength) EXCEPT !.tokensLength = @ + 2]

addHashToken(s, offset) ==
  LET sv1 == 2 * s.stringValuesStart + (IF s.hashTokenIsID THEN 1 ELSE 0)
      Refeed(f) == IF offset = 1 THEN refeedLast(f) ELSE refeedBeforeLast(f)
  IN reconsumption(s, "_addHashToken", offset,
       Refeed([pushTokenSlot(pushTokenSlot(pushTokenHeader(s, HASH_TOKEN,
                                                           s.sourceLength - offset),
                                           sv1),
                             s.stringValuesLength)
                 EXCEPT !.stringValuesStart = s.stringValuesLength,
                        !.hashTokenIsID = FALSE,
                        !.hashLog = Append(@, <<s.tokensLength, s.hashPrefix>>),
                        !.fed = <<>>]))

addNumberToken(s, offset) ==
  LET Value(c) ==
        IF s.numericTokenIsFloat
        THEN [pushTokenSlot(pushTokenSlot([c EXCEPT
                                             !.numericTokenIsFloat = FALSE,
                                             !.floatValues =
                                               TAWrite(@, s.capacity, s.floatValuesLength,
                                                       s.numericTokenValue)],
                                          1),
                            s.floatValuesLength)
                EXCEPT !.floatValuesLength = @ + 1]
        ELSE [pushTokenSlot(pushTokenSlot([c EXCEPT
                                             !.intValues =
                                               TAWrite(@, s.capacity, s.intValuesLength,
                                                       ToInt32(s.numericTokenValue))],
                                          0),
                            s.intValuesLength)
                EXCEPT !.intValuesLength = @ + 1]
      Refeed(d) == CASE offset = 3 -> refeed(refeed(refeed(d)))
                     [] offset = 2 -> refeed(refeed(d))
                     [] offset = 1 -> refeed(d)
                     [] OTHER      -> d
  IN reconsumption(s, "_addNumberToken", offset,
                   Refeed(Value(pushTokenHeader([s EXCEPT !.sourceLength = @ - offset,
                                                          !.fed = <<>>],
                                                NUMBER_TOKEN, s.sourceLength - offset))))

\* _addPercentageToken without its this._numericTokenIsFloat = false
addPercentageToken_KeepsFloatFlag(s) ==
  [pushTokenSlot(pushTokenHeader([s EXCEPT
                                    !.floatValues = TAWrite(@, s.capacity, s.floatValuesLength,
                                                            s.numericTokenValue)],
                                 PERCENTAGE_TOKEN, s.sourceLength),
                 s.floatValuesLength)
     EXCEPT !.floatValuesLength = @ + 1,
            !.tokensLength = @ + 1]

addPercentageToken(s) ==
  [pushTokenSlot(pushTokenHeader([s EXCEPT
                                    !.floatValues = TAWrite(@, s.capacity, s.floatValuesLength,
                                                            s.numericTokenValue)],
                                 PERCENTAGE_TOKEN, s.sourceLength),
                 s.floatValuesLength)
     EXCEPT !.floatValuesLength = @ + 1,
            !.tokensLength = @ + 1,
            !.numericTokenIsFloat = FALSE]

addStringValueTokenWithoutOffset(s, tokenType) ==
  [pushTokenSlot(pushTokenSlot(pushTokenHeader(s, tokenType, s.sourceLength),
                               s.stringValuesStart),
                 s.stringValuesLength)
     EXCEPT !.stringValuesStart = s.stringValuesLength]

RECURSIVE refeedWhile(_, _)
\* while (offset-- && this._error === undefined) this._lex(this._source[...++])
refeedWhile(s, offset) ==
  IF offset = 0 \/ s.error # "undefined" \/ s.thrown # "none" THEN s
  ELSE refeedWhile(refeed(s), offset - 1)

addStringValueTokenWithOffset(s, tokenType, offset) ==
  LET Refeed(a) == CASE offset = 2 -> refeed(refeed(a))
                     [] offset = 1 -> refeed(a)
                     [] OTHER      -> refeedWhile(a, offset)
  IN reconsumption(s, "_addStringValueTokenWithOffset", offset,
                   Refeed(addStringValueTokenWithoutOffset(
                            [s EXCEPT !.sourceLength = @ - offset, !.fed = <<>>], tokenType)))

addWhitespaceToken(s, cp) ==
  LET Then(d) == IF d.error = "undefined" THEN Lex(d, cp) ELSE d
  IN Then([pushTokenHeader(s, WHITESPACE_TOKEN, s.sourceLength - 1)
             EXCEPT !.tokensLength = @ + 2])

escape(s, lexState, cp) ==
  Lex([s EXCEPT !.lexAfterEscape = lexState, !.lex = "$escape"], cp)

finishHexEscape(s) ==
  [stringValue(s, normalizeEscapeCP(s.escapeCP)) EXCEPT !.lex = s.lexAfterEscape]

reconsumeCurrentCP(s, lexState, cp) == Lex([s EXCEPT !.lex = lexState], cp)

goto(s, lexState) == [s EXCEPT !.lex = lexState]

(***************************************************************************)
(* Lexical states.                                                         *)
(***************************************************************************)
L_atKeyword(s, cp) ==
  IF isNameContinue(cp) THEN stringValue(s, cp)
  ELSE IF cp = 92 THEN goto(s, "$atKeywordEscape")
  ELSE addStringValueTokenWithOffset(s, AT_KEYWORD_TOKEN, 1)

L_atKeywordEscape(s, cp) ==
  IF cp = 10 THEN addStringValueTokenWithOffset(s, AT_KEYWORD_TOKEN, 2)
  ELSE escape(s, "$atKeyword", cp)

L_badURL(s, cp) ==
  IF cp = 41 \/ cp = EOF_SENTINEL
  THEN addStringValueTokenWithoutOffset(s, BAD_URL_TOKEN)
  ELSE IF cp = 92 THEN goto(s, "$badURLEscape")
  ELSE s

L_badURLEscape(s, cp) ==
  IF cp = EOF_SENTINEL
  THEN LET f == fail(s, "consume-escaped-code-point")
       IN IF stops(f) THEN f
          ELSE goto(addStringValueTokenWithoutOffset(f, BAD_URL_TOKEN), "$badURL")
  ELSE goto(s, "$badURL")

L_cdcOrIdent(s, cp) ==
  IF cp = 62 THEN addGeneralTokenWithoutOffset(s, CDC_TOKEN)
  ELSE reconsumeCurrentCP(stringValue(stringValue(s, 45), 45), "$ident", cp)

L_comment(s, cp) ==
  IF cp = 42 THEN goto(s, "$commentAfterAsterisk")
  ELSE IF cp = EOF_SENTINEL
  THEN LET f == fail(s, "consume-comment")
       IN IF stops(f) THEN f ELSE addGeneralTokenWithoutOffset(f, COMMENT_TOKEN)
  ELSE s

L_commentAfterAsterisk(s, cp) ==
  IF cp = 42 THEN s
  ELSE IF cp = 47 THEN addGeneralTokenWithoutOffset(s, COMMENT_TOKEN)
  ELSE IF cp = EOF_SENTINEL
  THEN LET f == fail(s, "consume-comment")
       IN IF stops(f) THEN f ELSE addGeneralTokenWithoutOffset(f, COMMENT_TOKEN)
  ELSE goto(s, "$comment")

L_delimOrAtKeyword(s, cp) ==
  IF isNameStart(cp) THEN goto(stringValue(s, cp), "$atKeyword")
  ELSE IF cp = 45 THEN goto(s, "$delimOrAtKeywordAfterHyphen")
  ELSE IF cp = 92 THEN goto(s, "$delimOrAtKeywordAfterBackslash")
  ELSE addDelimTokenWithOffset(s, 64, 1)

L_delimOrAtKeywordAfterBackslash(s, cp) ==
  IF cp = 10 THEN addDelimTokenWithOffset(s, 64, 2)
  ELSE escape(s, "$atKeyword", cp)

L_delimOrAtKeywordAfterHyphen(s, cp) ==
  IF isNameStart(cp) \/ cp = 45
  THEN goto(stringValue(stringValue(s, 45), cp), "$atKeyword")
  ELSE IF cp = 92 THEN goto(s, "$delimOrAtKeywordAfterHyphenBackslash")
  ELSE addDelimTokenWithOffset(s, 64, 2)

L_delimOrAtKeywordAfterHyphenBackslash(s, cp) ==
  IF cp = 10 THEN addDelimTokenWithOffset(s, 64, 3)
  ELSE escape(stringValue(s, 45), "$atKeyword", cp)

L_delimOrCDO(s, cp) ==
  IF cp = 33 THEN goto(s, "$delimOrCDOAfterExclamationPoint")
  ELSE addDelimTokenWithOffset(s, 60, 1)

L_delimOrCDOAfterExclamationPoint(s, cp) ==
  IF cp = 45 THEN goto(s, "$delimOrCDOAfterExclamationPointHyphen")
  ELSE addDelimTokenWithOffset(s, 60, 2)

L_delimOrCDOAfterExclamationPointHyphen(s, cp) ==
  IF cp = 45 THEN addGeneralTokenWithoutOffset(s, CDO_TOKEN)
  ELSE addDelimTokenWithOffset(s, 60, 3)

L_delimOrComment(s, cp) ==
  IF cp = 42 THEN goto(s, "$comment")
  ELSE addDelimTokenWithOffset(s, 47, 1)

L_delimOrFractionalNumber(s, cp) ==
  IF isDigit(cp)
  THEN [s EXCEPT !.numericTokenIsFloat = TRUE, !.lex = "$numberInDecimal"]
  ELSE addDelimTokenWithOffset(s, 46, 1)

\* $delimOrHash without its this._hashTokenIsID = true
L_delimOrHash_NeverID(s, cp) ==
  IF isNameStart(cp)
  THEN goto(stringValue(s, cp), "$hash")
  ELSE IF cp = 45 THEN goto(stringValue(s, cp), "$hashAfterHyphen")
  ELSE IF cp = 92 THEN goto(s, "$delimOrHashAfterBackslash")
  ELSE IF isNameContinue(cp) THEN goto(stringValue(s, cp), "$hash")
  ELSE addDelimTokenWithOffset(s, 35, 1)

L_delimOrHash(s, cp) ==
  IF isNameStart(cp)
  THEN goto(stringValue([s EXCEPT !.hashTokenIsID = TRUE], cp), "$hash")
  ELSE IF cp = 45 THEN goto(stringValue(s, cp), "$hashAfterHyphen")
  ELSE IF cp = 92 THEN goto(s, "$delimOrHashAfterBackslash")
  ELSE IF isNameContinue(cp) THEN goto(stringValue(s, cp), "$hash")
  ELSE addDelimTokenWithOffset(s, 35, 1)

L_delimOrHashAfterBackslash(s, cp) ==
  IF cp = 10 THEN addDelimTokenWithOffset(s, 35, 2)
  ELSE escape([s EXCEPT !.hashTokenIsID = TRUE], "$hash", cp)

L_delimOrIdentAfterHyphenBackslash(s, cp) ==
  IF cp = 10 THEN addDelimTokenWithOffset(s, 45, 1)
  ELSE escape(stringValue(s, 45), "$ident", cp)

L_delimOrIdentInitialEscape(s, cp) ==
  IF cp = 10
  THEN LET f == fail(s, "consume-token")
       IN IF stops(f) THEN f ELSE addDelimTokenWithOffset(f, 92, 1)
  ELSE escape(s, "$ident", cp)

\* the default branch passes cp, not a count, as the offset
L_delimOrNegativeSignedNumberOrCDCOrIdent(s, cp) ==
  IF cp = 45 THEN goto(s, "$cdcOrIdent")
  ELSE IF cp = 46 THEN goto(s, "$delimOrNegativeSignedNumberFractional")
  ELSE IF cp = 92 THEN goto(s, "$delimOrIdentAfterHyphenBackslash")
  ELSE IF isDigit(cp) THEN goto(s, "$number")
  ELSE IF isNameStart(cp) THEN reconsumeCurrentCP(stringValue(s, 45), "$ident", cp)
  ELSE addDelimTokenWithOffset(s, 45, cp)

L_delimOrNegativeSignedNumberFractional(s, cp) ==
  IF isDigit(cp)
  THEN [s EXCEPT !.numericTokenIsFloat = TRUE, !.lex = "$numberInDecimal"]
  ELSE addDelimTokenWithOffset(s, 45, 2)

L_delimOrPositiveSignedNumber(s, cp) ==
  IF cp = 46 THEN goto(s, "$delimOrPositiveSignedNumberFractional")
  ELSE IF isDigit(cp) THEN goto(s, "$number")
  ELSE addDelimTokenWithOffset(s, 43, 1)

L_delimOrPositiveSignedNumberFractional(s, cp) ==
  IF isDigit(cp)
  THEN [s EXCEPT !.numericTokenIsFloat = TRUE, !.lex = "$numberInDecimal"]
  ELSE addDelimTokenWithOffset(s, 43, 2)

L_escape(s, cp) ==
  IF isHex(cp)
  THEN [s EXCEPT !.escapeCount = 1, !.escapeCP = toHexValue(cp), !.lex = "$escapeHex"]
  ELSE IF cp = EOF_SENTINEL
  THEN LET f == fail(s, "consume-escaped-code-point")
       IN IF f.thrown # "none" THEN f
          ELSE goto(stringValue(f, 65533), f.lexAfterEscape)
  ELSE goto(stringValue(s, cp), s.lexAfterEscape)

L_escapeHex(s, cp) ==
  IF isHex(cp)
  THEN LET a == [s EXCEPT !.escapeCP = @ * 16 + toHexValue(cp),
                          !.escapeCount = @ + 1]
       IN IF a.escapeCount = 6 THEN finishHexEscape(a) ELSE a
  ELSE LET a == finishHexEscape(s)
       IN IF cp \in {9, 10, 32} THEN a ELSE Lex(a, cp)

L_url(s, cp) ==
  IF cp \in {9, 10, 32} THEN goto(s, "$urlAfterWhitespace")
  ELSE IF cp \in {34, 39, 40}
  THEN LET f == fail(s, "consume-url-token")
       IN IF f.thrown # "none" THEN f
          ELSE [f EXCEPT !.stringValuesLength = f.stringValuesStart, !.lex = "$badURL"]
  ELSE IF cp = 41 THEN addStringValueTokenWithoutOffset(s, URL_TOKEN)
  ELSE IF cp = 92 THEN goto(s, "$urlEscape")
  ELSE IF isNonPrintable(cp)
  THEN \* no return ends this case: it runs on into the end-of-input case
       LET f == fail(s, "consume-url-token")
           g == IF f.thrown # "none" THEN f
                ELSE fail([f EXCEPT !.stringValuesLength = f.stringValuesStart,
                                    !.lex = "$badURL"], "consume-url-token")
       IN IF g.thrown # "none" THEN g
          ELSE stringValue(addStringValueTokenWithoutOffset(g, URL_TOKEN), cp)
  ELSE IF cp = EOF_SENTINEL
  THEN \* no return ends this case: it runs on into the default
       LET f == fail(s, "consume-url-token")
       IN IF f.thrown # "none" THEN f
          ELSE stringValue(addStringValueTokenWithoutOffset(f, URL_TOKEN), cp)
  ELSE stringValue(s, cp)

L_functionOrURL(s, cp) ==
  IF cp \in {9, 10, 32} THEN [s EXCEPT !.urlWhitespaceCount = @ + 1]
  ELSE LET \* no return ends the quote case: it runs on into the default
           a == IF cp \in {34, 39}
                THEN addStringValueTokenWithOffset(s, FUNCTION_TOKEN,
                                                   s.urlWhitespaceCount + 1)
                ELSE s
       IN IF a.thrown # "none" THEN a
          ELSE reconsumeCurrentCP([a EXCEPT !.stringValuesLength = a.stringValuesStart],
                                  "$url", cp)

L_hash(s, cp) ==
  IF isNameContinue(cp) THEN stringValue(s, cp)
  ELSE IF cp = 92 THEN goto(s, "$hashEscape")
  ELSE addHashToken(s, 1)

\* $hashAfterHyphen without the `-` alternative of its first branch
L_hashAfterHyphen_SingleHyphen(s, cp) ==
  IF isNameStart(cp)
  THEN goto(stringValue([s EXCEPT !.hashTokenIsID = TRUE], cp), "$hash")
  ELSE IF cp = 92 THEN goto(s, "$hashAfterHyphenBackslash")
  ELSE IF isNameContinue(cp) THEN goto(stringValue(s, cp), "$hash")
  ELSE addHashToken(s, 1)

L_hashAfterHyphen(s, cp) ==
  IF isNameStart(cp) \/ cp = 45
  THEN goto(stringValue([s EXCEPT !.hashTokenIsID = TRUE], cp), "$hash")
  ELSE IF cp = 92 THEN goto(s, "$hashAfterHyphenBackslash")
  ELSE IF isNameContinue(cp) THEN goto(stringValue(s, cp), "$hash")
  ELSE addHashToken(s, 1)

L_hashAfterHyphenBackslash(s, cp) ==
  IF cp = 10 THEN addHashToken(s, 2)
  ELSE escape([s EXCEPT !.hashTokenIsID = TRUE], "$hash", cp)

L_hashEscape(s, cp) ==
  IF cp = 10 THEN addHashToken(s, 2)
  ELSE escape(s, "$hash", cp)

L_ident(s, cp) ==
  IF isNameContinue(cp) THEN stringValue(s, cp)
  ELSE IF cp = 92 THEN goto(s, "$identEscape")
  ELSE IF cp = 40
  THEN IF isStringValueURL(s)
       THEN [s EXCEPT !.urlWhitespaceCount = 0, !.lex = "$functionOrURL"]
       ELSE addStringValueTokenWithoutOffset(s, FUNCTION_TOKEN)
  ELSE addStringValueTokenWithOffset(s, IDENT_TOKEN, 1)

L_identEscape(s, cp) ==
  IF cp = 10 THEN addStringValueTokenWithOffset(s, IDENT_TOKEN, 2)
  ELSE escape(s, "$ident", cp)

L_input(s, cp) ==
  CASE cp \in {9, 10, 32} -> goto(s, "$whitespace")
    [] cp = 34 -> [s EXCEPT !.stringDelimiter = 34, !.lex = "$string"]
    [] cp = 35 -> goto(s, "$delimOrHash")
    [] cp = 39 -> [s EXCEPT !.stringDelimiter = 39, !.lex = "$string"]
    [] cp = 40 -> addGeneralTokenWithoutOffset(s, LEFT_PARENTHESIS_TOKEN)
    [] cp = 41 -> addGeneralTokenWithoutOffset(s, RIGHT_PARENTHESIS_TOKEN)
    [] cp = 43 -> goto(s, "$delimOrPositiveSignedNumber")
    [] cp = 44 -> addGeneralTokenWithoutOffset(s, COMMA_TOKEN)
    [] cp = 45 -> goto(s, "$delimOrNegativeSignedNumberOrCDCOrIdent")
    [] cp = 46 -> goto(s, "$delimOrFractionalNumber")
    [] cp = 47 -> goto(s, "$delimOrComment")
    [] isDigit(cp) -> goto(s, "$number")
    [] cp = 58 -> addGeneralTokenWithoutOffset(s, COLON_TOKEN)
    [] cp = 59 -> addGeneralTokenWithoutOffset(s, SEMICOLON_TOKEN)
    [] cp = 60 -> goto(s, "$delimOrCDO")
    [] cp = 64 -> goto(s, "$delimOrAtKeyword")
    [] cp = 91 -> addGeneralTokenWithoutOffset(s, LEFT_BRACKET_TOKEN)
    [] cp = 92 -> goto(s, "$delimOrIdentInitialEscape")
    [] cp = 93 -> addGeneralTokenWithoutOffset(s, RIGHT_BRACKET_TOKEN)
    [] cp = 123 -> addGeneralTokenWithoutOffset(s, LEFT_BRACE_TOKEN)
    [] cp = 125 -> addGeneralTokenWithoutOffset(s, RIGHT_BRACE_TOKEN)
    [] cp = EOF_SENTINEL -> s
    [] OTHER -> IF isNameStart(cp) THEN reconsumeCurrentCP(s, "$ident", cp)
                ELSE addDelimTokenWithoutOffset(s, cp)

\* the tail $number, $numberExponent and $numberInDecimal share: the number
\* ends before cp
numberEnds(s, cp) ==
  LET a == commitNumber(s, 1)
  IN IF a.thrown # "none" THEN a
     ELSE IF isNameStart(cp) THEN goto(stringValue(a, cp), "$numberUnit")
     ELSE addNumberToken(a, 1)

numberThen(s, lexState) ==
  LET a == commitNumber(s, 1)
  IN IF a.thrown # "none" THEN a ELSE goto(a, lexState)

numberPercentage(s) ==
  LET a == commitNumber(s, 1)
  IN IF a.thrown # "none" THEN a ELSE addPercentageToken(a)

L_number(s, cp) ==
  CASE cp = 37 -> numberPercentage(s)
    [] cp = 45 -> numberThen(s, "$numberPossibleUnitHyphen")
    [] cp = 46 -> goto(s, "$numberPossibleFraction")
    [] isDigit(cp) -> s
    [] cp \in {69, 101} -> goto(s, "$numberPossibleExponentOrUnit")
    [] cp = 92 -> numberThen(s, "$numberPossibleUnitBackslash")
    [] OTHER -> numberEnds(s, cp)

L_numberExponent(s, cp) ==
  CASE cp = 37 -> numberPercentage(s)
    [] cp = 45 -> numberThen(s, "$numberPossibleUnitHyphen")
    [] isDigit(cp) -> s
    [] cp = 92 -> numberThen(s, "$numberPossibleUnitBackslash")
    [] OTHER -> numberEnds(s, cp)

L_numberInDecimal(s, cp) ==
  CASE cp = 37 -> numberPercentage(s)
    [] cp = 45 -> numberThen(s, "$numberPossibleUnitHyphen")
    [] isDigit(cp) -> s
    [] cp \in {69, 101} -> goto(s, "$numberPossibleExponentOrUnit")
    [] cp = 92 -> numberThen(s, "$numberPossibleUnitBackslash")
    [] OTHER -> numberEnds(s, cp)

L_numberPossibleExponentOrUnit(s, cp) ==
  CASE cp = 43 -> goto(s, "$numberPossibleExponentSignedOrUnitPlus")
    [] cp = 45 -> goto(s, "$numberPossibleExponentSignedOrUnitHyphen")
    [] isDigit(cp) -> [s EXCEPT !.numericTokenIsFloat = TRUE, !.lex = "$numberExponent"]
    [] OTHER ->
         LET a == commitNumber(s, 2)
             b == stringValue(a, sourceAt(a, a.sourceLength - 2))
         IN IF a.thrown # "none" THEN a
            ELSE IF cp = 92 THEN reconsumeCurrentCP(b, "$numberUnitEscape", 92)
            ELSE IF isNameContinue(cp) THEN goto(stringValue(b, cp), "$numberUnit")
            ELSE addDimensionToken(b, 1)

L_numberPossibleExponentSignedOrUnitPlus(s, cp) ==
  IF isDigit(cp)
  THEN [s EXCEPT !.numericTokenIsFloat = TRUE, !.lex = "$numberExponent"]
  ELSE LET a == commitNumber(s, 3)
       IN IF a.thrown # "none" THEN a
          ELSE addDimensionToken(stringValue(a, sourceAt(a, a.sourceLength - 3)), 2)

\* the unit branch goes on to $numberUnit without _commitNumber
L_numberPossibleExponentSignedOrUnitHyphen(s, cp) ==
  IF isDigit(cp)
  THEN [s EXCEPT !.numericTokenIsFloat = TRUE, !.lex = "$numberExponent"]
  ELSE LET a == stringValue(stringValue(s, sourceAt(s, s.sourceLength - 3)), 45)
       IN IF isNameContinue(cp) \/ cp = 92
          THEN reconsumeCurrentCP(a, "$numberUnit", cp)
          ELSE LET b == commitNumber(a, 3)
               IN IF b.thrown # "none" THEN b ELSE addDimensionToken(b, 2)

L_numberPossibleFraction(s, cp) ==
  IF isDigit(cp)
  THEN [s EXCEPT !.numericTokenIsFloat = TRUE, !.lex = "$numberInDecimal"]
  ELSE LET a == commitNumber(s, 2)
       IN IF a.thrown # "none" THEN a ELSE addNumberToken(a, 2)

L_numberPossibleUnitBackslash(s, cp) ==
  IF cp = 10 THEN addNumberToken(s, 2)
  ELSE escape(s, "$numberUnit", cp)

L_numberPossibleUnitHyphen(s, cp) ==
  IF cp = 45 THEN goto(stringValue(stringValue(s, 45), 45), "$numberUnit")
  ELSE IF cp = 92 THEN goto(s, "$numberPossibleUnitHyphenBackslash")
  ELSE IF isNameStart(cp) THEN goto(stringValue(stringValue(s, 45), cp), "$numberUnit")
  ELSE addNumberToken(s, 2)

L_numberPossibleUnitHyphenBackslash(s, cp) ==
  IF cp = 10 THEN addNumberToken(s, 3)
  ELSE escape(stringValue(s, 45), "$numberUnit", cp)

L_numberUnit(s, cp) ==
  IF cp = 92 THEN goto(s, "$numberUnitEscape")
  ELSE IF isNameContinue(cp) THEN stringValue(s, cp)
  ELSE addDimensionToken(s, 1)

L_numberUnitEscape(s, cp) ==
  IF cp = 10 THEN addDimensionToken(s, 2)
  ELSE escape(s, "$numberUnit", cp)

\* $string without the this._stringValuesLength = this._stringValuesStart of
\* its line feed case
L_string_KeepsValue(s, cp) ==
  IF cp = s.stringDelimiter THEN addStringValueTokenWithoutOffset(s, STRING_TOKEN)
  ELSE IF cp = 10
  THEN LET f == fail(s, "consume-a-string-token")
       IN IF stops(f) THEN f
          ELSE addStringValueTokenWithOffset(f, BAD_STRING_TOKEN, 1)
  ELSE IF cp = 92 THEN goto(s, "$stringEscape")
  ELSE IF cp = EOF_SENTINEL
  THEN LET f == fail(s, "consume-a-string-token")
       IN IF stops(f) THEN f ELSE addStringValueTokenWithoutOffset(f, STRING_TOKEN)
  ELSE stringValue(s, cp)

L_string(s, cp) ==
  IF cp = s.stringDelimiter THEN addStringValueTokenWithoutOffset(s, STRING_TOKEN)
  ELSE IF cp = 10
  THEN LET f == fail(s, "consume-a-string-token")
       IN IF stops(f) THEN f
          ELSE addStringValueTokenWithOffset(
                 [f EXCEPT !.stringValuesLength = f.stringValuesStart],
                 BAD_STRING_TOKEN, 1)
  ELSE IF cp = 92 THEN goto(s, "$stringEscape")
  ELSE IF cp = EOF_SENTINEL
  THEN LET f == fail(s, "consume-a-string-token")
       IN IF stops(f) THEN f ELSE addStringValueTokenWithoutOffset(f, STRING_TOKEN)
  ELSE stringValue(s, cp)

L_stringEscape(s, cp) ==
  IF cp = 10 THEN goto(s, "$string")
  ELSE IF cp = EOF_SENTINEL
  THEN LET f == fail(s, "consume-a-string-token")
       IN IF stops(f) THEN f ELSE addStringValueTokenWithoutOffset(f, STRING_TOKEN)
  ELSE escape(s, "$string", cp)

L_urlAfterWhitespace(s, cp) ==
  IF cp \in {9, 10, 32} THEN s
  ELSE IF cp = EOF_SENTINEL
  THEN LET f == fail(s, "consume-url-token")
       IN IF stops(f) THEN f ELSE addStringValueTokenWithoutOffset(f, URL_TOKEN)
  ELSE IF cp = 41 THEN addStringValueTokenWithoutOffset(s, URL_TOKEN)
  ELSE [s EXCEPT !.stringValuesLength = s.stringValuesStart, !.lex = "$badURL"]

L_urlEscape(s, cp) ==
  IF cp = 10
  THEN [s EXCEPT !.stringValuesLength = s.stringValuesStart, !.lex = "$badURL"]
  ELSE escape(s, "$url", cp)

L_whitespace(s, cp) ==
  IF cp \in {9, 10, 32} THEN s ELSE addWhitespaceToken(s, cp)

(***************************************************************************)
(* The dispatcher: this._lex(cp) calls the state the field lex names.  A   *)
(* chain of nested calls deeper than MaxDepth is a re-feed that re-feeds   *)
(* itself without end: the call stack overflows (RangeError).              *)
(***************************************************************************)
Lex(s, cp) ==
  IF s.thrown # "none" THEN s
  ELSE IF s.depth >= MaxDepth THEN throw(s, "RangeError: Maximum call stack size exceeded")
  ELSE
    LET a == [s EXCEPT
                 !.depth = @ + 1,
                 !.lexAfterError = @ \/ s.error # "undefined",
                 !.hashPrefix =
                   IF s.lex = "$delimOrHash" THEN <<cp>>
                   ELSE IF s.lex \in {"$delimOrHashAfterBackslash", "$hashAfterHyphen",
                                      "$hashAfterHyphenBackslash"}
                   THEN Append(@, cp)
                   ELSE @]
        r == CASE a.lex = "$atKeyword" -> L_atKeyword(a, cp)
               [] a.lex = "$atKeywordEscape" -> L_atKeywordEscape(a, cp)
               [] a.lex = "$badURL" -> L_badURL(a, cp)
               [] a.lex = "$badURLEscape" -> L_badURLEscape(a, cp)
               [] a.lex = "$cdcOrIdent" -> L_cdcOrIdent(a, cp)
               [] a.lex = "$comment" -> L_comment(a, cp)
               [] a.lex = "$commentAfterAsterisk" -> L_commentAfterAsterisk(a, cp)
               [] a.lex = "$delimOrAtKeyword" -> L_delimOrAtKeyword(a, cp)
               [] a.lex = "$delimOrAtKeywordAfterBackslash" ->
                    L_delimOrAtKeywordAfterBackslash(a, cp)
               [] a.lex = "$delimOrAtKeywordAfterHyphen" ->
                    L_delimOrAtKeywordAfterHyphen(a, cp)
               [] a.lex = "$delimOrAtKeywordAfterHyphenBackslash" ->
                    L_delimOrAtKeywordAfterHyphenBackslash(a, cp)
               [] a.lex = "$delimOrCDO" -> L_delimOrCDO(a, cp)
               [] a.lex = "$delimOrCDOAfterExclamationPoint" ->
                    L_delimOrCDOAfterExclamationPoint(a, cp)
               [] a.lex = "$delimOrCDOAfterExclamationPointHyphen" ->
                    L_delimOrCDOAfterExclamationPointHyphen(a, cp)
               [] a.lex = "$delimOrComment" -> L_delimOrComment(a, cp)
               [] a.lex = "$delimOrFractionalNumber" -> L_delimOrFractionalNumber(a, cp)
               [] a.lex = "$delimOrHash" -> L_delimOrHash(a, cp)
               [] a.lex = "$delimOrHashAfterBackslash" -> L_delimOrHashAfterBackslash(a, cp)
               [] a.lex = "$delimOrIdentAfterHyphenBackslash" ->
                    L_delimOrIdentAfterHyphenBackslash(a, cp)
               [] a.lex = "$delimOrIdentInitialEscape" -> L_delimOrIdentInitialEscape(a, cp)
               [] a.lex = "$delimOrNegativeSignedNumberOrCDCOrIdent" ->
                    L_delimOrNegativeSignedNumberOrCDCOrIdent(a, cp)
               [] a.lex = "$delimOrNegativeSignedNumberFractional" ->
                    L_delimOrNegativeSignedNumberFractional(a, cp)
               [] a.lex = "$delimOrPositiveSignedNumber" ->
                    L_delimOrPositiveSignedNumber(a, cp)
               [] a.lex = "$delimOrPositiveSignedNumberFractional" ->
                    L_delimOrPositiveSignedNumberFractional(a, cp)
               [] a.lex = "$escape" -> L_escape(a, cp)
               [] a.lex = "$escapeHex" -> L_escapeHex(a, cp)
               [] a.lex = "$functionOrURL" -> L_functionOrURL(a, cp)
               [] a.lex = "$hash" -> L_hash(a, cp)
               [] a.lex = "$hashAfterHyphen" -> L_hashAfterHyphen(a, cp)
               [] a.lex = "$hashAfterHyphenBackslash" -> L_hashAfterHyphenBackslash(a, cp)
               [] a.lex = "$hashEscape" -> L_hashEscape(a, cp)
               [] a.lex = "$ident" -> L_ident(a, cp)
               [] a.lex = "$identEscape" -> L_identEscape(a, cp)
               [] a.lex = "$input" -> L_input(a, cp)
               [] a.lex = "$number" -> L_number(a, cp)
               [] a.lex = "$numberExponent" -> L_numberExponent(a, cp)
               [] a.lex = "$numberInDecimal" -> L_numberInDecimal(a, cp)
               [] a.lex = "$numberPossibleExponentOrUnit" ->
                    L_numberPossibleExponentOrUnit(a, cp)
               [] a.lex = "$numberPossibleExponentSignedOrUnitPlus" ->
                    L_numberPossibleExponentSignedOrUnitPlus(a, cp)
               [] a.lex = "$numberPossibleExponentSignedOrUnitHyphen" ->
                    L_numberPossibleExponentSignedOrUnitHyphen(a, cp)
               [] a.lex = "$numberPossibleFraction" -> L_numberPossibleFraction(a, cp)
               [] a.lex = "$numberPossibleUnitBackslash" ->
                    L_numberPossibleUnitBackslash(a, cp)
               [] a.lex = "$numberPossibleUnitHyphen" -> L_numberPossibleUnitHyphen(a, cp)
               [] a.lex = "$numberPossibleUnitHyphenBackslash" ->
                    L_numberPossibleUnitHyphenBackslash(a, cp)
               [] a.lex = "$numberUnit" -> L_numberUnit(a, cp)
               [] a.lex = "$numberUnitEscape" -> L_numberUnitEscape(a, cp)
               [] a.lex = "$string" -> L_string(a, cp)
               [] a.lex = "$stringEscape" -> L_stringEscape(a, cp)
               [] a.lex = "$url" -> L_url(a, cp)
               [] a.lex = "$urlAfterWhitespace" -> L_urlAfterWhitespace(a, cp)
               [] a.lex = "$urlEscape" -> L_urlEscape(a, cp)
               [] a.lex = "$whitespace" -> L_whitespace(a, cp)
    IN [r EXCEPT !.depth = s.depth]

(***************************************************************************)
(* The stream entry points.                                                *)
(***************************************************************************)
\* stream preprocessing that turns a form feed into a carriage return
normalizeCP_FormFeedToCR(cp) ==
  IF cp = 0 THEN 65533
  ELSE IF cp = 12 THEN 13
  ELSE IF cp = 13 THEN 10
  ELSE cp

\* stream preprocessing of one code point
normalizeCP(cp) ==
  IF cp = 0 THEN 65533
  ELSE IF cp = 12 \/ cp = 13 THEN 10
  ELSE cp

\* one turn of the loop of _write, its line test being cp === 0x0A alone
writeCP_LineFeedOnly(s, raw) ==
  IF s.lastCPWasCR /\ raw = 10 THEN [s EXCEPT !.lastCPWasCR = FALSE]
  ELSE
    LET cp == normalizeCP(raw)
        \* after this._lex(cp): the error test, then the position
        Advance(b) ==
          IF b.thrown # "none" \/ b.error # "undefined" THEN b
          ELSE IF cp = 10
          THEN [b EXCEPT !.line = @ + 1, !.column = 0]
          ELSE [b EXCEPT !.column = @ + 1]
    IN Advance(Lex([s EXCEPT
                      !.lastCPWasCR = (cp = 13),
                      !.stored = Append(@, cp),
                      !.source = TAWrite(@, s.capacity, s.sourceLength, cp),
                      !.sourceLength = @ + 1,
                      !.positions =
                        TAWrite(TAWrite(@, 2 * s.capacity, s.positionsLength, s.line),
                                2 * s.capacity, s.positionsLength + 1, s.column),
                      !.positionsLength = @ + 2],
                   cp))

\* one turn of the loop of _write
writeCP(s, raw) ==
  IF s.lastCPWasCR /\ raw = 10 THEN [s EXCEPT !.lastCPWasCR = FALSE]
  ELSE
    LET cp == normalizeCP(raw)
        \* after this._lex(cp): the error test, then the position
        Advance(b) ==
          IF b.thrown # "none" \/ b.error # "undefined" THEN b
          ELSE IF cp = 10 \/ cp = 8232 \/ cp = 8233
          THEN [b EXCEPT !.line = @ + 1, !.column = 0]
          ELSE [b EXCEPT !.column = @ + 1]
    IN Advance(Lex([s EXCEPT
                      !.lastCPWasCR = (cp = 13),
                      !.stored = Append(@, cp),
                      !.source = TAWrite(@, s.capacity, s.sourceLength, cp),
                      !.sourceLength = @ + 1,
                      !.positions =
                        TAWrite(TAWrite(@, 2 * s.capacity, s.positionsLength, s.line),
                                2 * s.capacity, s.positionsLength + 1, s.column),
                      !.positionsLength = @ + 2],
                   cp))

RECURSIVE writeLoop(_, _, _)
\* the loop of _write from index i: it returns done(this._error) as soon as
\* a dispatch leaves _error set, and ends with done()
writeLoop(s, cps, i) ==
  IF i > Len(cps) THEN [s EXCEPT !.doneCalls = @ + 1]
  ELSE LET Continue(a) ==
             IF a.thrown # "none" THEN a
             ELSE IF a.error # "undefined" /\ ~(s.lastCPWasCR /\ cps[i] = 10)
             THEN [a EXCEPT !.doneCalls = @ + 1]
             ELSE writeLoop(a, cps, i + 1)
       IN Continue(writeCP(s, cps[i]))

\* _write(chunk, enc, done)
write(s, cps) ==
  writeLoop(IF s.capacity - s.sourceLength < Len(cps)
            THEN expandBuffers([s EXCEPT !.doneCalls = 0], Len(cps))
            ELSE [s EXCEPT !.doneCalls = 0],
            cps, 1)

\* _finish(done)
finish(s) ==
  IF s.error # "undefined" THEN [s EXCEPT !.doneCalls = 0]
  ELSE LET Done(b) == IF b.thrown # "none" THEN b
                      ELSE [b EXCEPT !.sourceLength = @ - 1, !.doneCalls = @ + 1]
       IN Done(Lex([s EXCEPT
                      !.source = TAWrite(@, s.capacity, s.sourceLength, EOF_SENTINEL),
                      !.sourceLength = @ + 1,
                      !.doneCalls = 0],
                   EOF_SENTINEL))

(***************************************************************************)
(* The inputs.  Each mode is an alphabet that exercises one family of      *)
(* states; the code points of a run are drawn from its mode's alphabet.    *)
(***************************************************************************)
DEFAULT_SIZE == 65536

Modes == {"delim", "ident", "url", "hash", "number", "markup"}

Alphabet(m) ==
  CASE m = "delim"  -> {59, 45, 4, 32, 34, 47}
    [] m = "ident"  -> {97, 92, 10, 13, 40, 32}
    [] m = "url"    -> {117, 114, 108, 76, 40, 41, 1}
    [] m = "hash"   -> {35, 45, 92, 97, 49, 10}
    [] m = "number" -> {49, 101, 45, 46, 37, 32}
    [] m = "markup" -> {60, 33, 45, 62, 97, 32, 2}

ModeLen(m) == IF m \in {"hash", "number"} THEN MaxLen + 1 ELSE MaxLen

Sizes == {0, 1, DEFAULT_SIZE}

Chunks(m) == UNION {[1..n -> Alphabet(m)] : n \in 1..MaxChunk}

Init ==
  /\ mode \in Modes
  /\ opts \in [recover : BOOLEAN, size : Sizes]
  /\ css = NewCSSParser(opts.recover, opts.size)
  /\ input = <<>>
  /\ ended = FALSE
  /\ lexer = Undefined

Write(chunk) ==
  /\ ~ended
  /\ css.thrown = "none"
  /\ Len(input) + Len(chunk) <= ModeLen(mode)
  /\ css' = write(css, chunk)
  /\ input' = input \o chunk
  /\ UNCHANGED <<opts, ended, mode, lexer>>

Finish ==
  /\ ~ended
  /\ css.thrown = "none"
  /\ css' = finish(css)
  /\ ended' = TRUE
  /\ UNCHANGED <<opts, input, mode, lexer>>

Next ==
  \/ \E chunk \in Chunks(mode) : Write(chunk)
  \/ Finish

Spec == Init /\ [][Next]_vars

(***************************************************************************)
(* Longer inputs.  A case is a set of openings, pushed in chunks of any    *)
(* cut, and an alphabet the code points after the opening are drawn from.  *)
(***************************************************************************)
MaxTail == 4

MaxEscapeTail == 7

\* a { color: #FF0099; }
RuleInput ==
  <<97, 32, 123, 32, 99, 111, 108, 111, 114, 58, 32, 35, 70, 70, 48, 48, 57, 57,
    59, 32, 125>>

\* 10px -3.5e+2 .5% \41 BC
NumbersInput ==
  <<49, 48, 112, 120, 32, 45, 51, 46, 53, 101, 43, 50, 32, 46, 53, 37, 32, 92,
    52, 49, 32, 66, 67>>

\* <!-- x --> /* c */ y
CommentsInput ==
  <<60, 33, 45, 45, 32, 120, 32, 45, 45, 62, 32, 47, 42, 32, 99, 32, 42, 47, 32,
    121>>

\* "line\Abreak"
EscapedStringInput == <<34, 108, 105, 110, 101, 92, 65, 98, 114, 101, 97, 107, 34>>

Openings(m) ==
  CASE m = "rule"          -> {RuleInput}
    [] m = "numbers"       -> {NumbersInput}
    [] m = "comments"      -> {CommentsInput}
    [] m = "escapedString" -> {EscapedStringInput}
    [] m = "urlQuoted"     -> {<<117, 114, 108, 40>>, <<117, 114, 76, 40>>}
    [] m = "urlRejected"   -> {<<117, 114, 76, 40>>}
    [] m = "string"        -> {<<34>>}
    [] m = "escape"        -> {<<92>>}
    [] m = "hexEscape"     -> {<<92, 52>>, <<92, 52, 49>>, <<92, 48, 52, 49>>,
                               <<92, 48, 48, 52, 49>>, <<92, 48, 48, 48, 52, 49>>,
                               <<92, 48, 48, 48, 48, 52, 49>>,
                               <<34, 92, 52, 49>>, <<34, 92, 48, 48, 48, 48, 52, 49>>}
    [] m = "lines"         -> {<<>>}

TailAlphabet(m) ==
  CASE m = "urlQuoted"     -> {32, 34, 39, 41}
    [] m = "urlRejected"   -> {97, 34, 40, 41, 1, 92, 10}
    [] m = "string"        -> {34, 97, 10, 92}
    [] m = "escape"        -> {48, 49, 68, 102, 59}
    [] m = "hexEscape"     -> {9, 10, 32, 103, 59}
    [] m = "lines"         -> {97, 10, 13, 12, 0, 8232}
    [] OTHER               -> {}

TailLen(m) == IF m = "escape" THEN MaxEscapeTail ELSE MaxTail

TailChunk(m) == IF m = "escape" THEN 1 ELSE MaxChunk

IsPrefix(a, b) == Len(a) <= Len(b) /\ SubSeq(b, 1, Len(a)) = a

\* the chunks that can follow the input pushed so far: the next code
\* points of an opening (up to MaxChunk of them, or all that is left of it),
\* or code points of the alphabet once an opening is complete
CaseChunks(m, inp) ==
  LET n == Len(inp)
  IN UNION { {SubSeq(o, n + 1, n + k) : k \in (1..Min(MaxChunk, Len(o) - n)) \cup {Len(o) - n}}
             : o \in {t \in Openings(m) : IsPrefix(inp, t) /\ Len(t) > n} }
     \cup
     UNION { UNION {[1..k -> TailAlphabet(m)]
                      : k \in 1..Min(TailChunk(m), TailLen(m) - (n - Len(o)))}
             : o \in {t \in Openings(m) : IsPrefix(t, inp)} }

AllOptions == [recover : BOOLEAN, size : Sizes]

InitCase(modes, options) ==
  /\ mode \in modes
  /\ opts \in options
  /\ css = NewCSSParser(opts.recover, opts.size)
  /\ input = <<>>
  /\ ended = FALSE
  /\ lexer = Undefined

Push(chunk) ==
  /\ ~ended
  /\ css.thrown = "none"
  /\ css' = write(css, chunk)
  /\ input' = input \o chunk
  /\ UNCHANGED <<opts, ended, mode, lexer>>

NextCase ==
  \/ \E chunk \in CaseChunks(mode, input) : Push(chunk)
  \/ Finish

InitExamples == InitCase({"rule", "numbers", "comments", "escapedString"}, AllOptions)

SpecExamples == InitExamples /\ [][NextCase]_vars

InitURL == InitCase({"urlQuoted", "urlRejected"}, AllOptions)

SpecURL == InitURL /\ [][NextCase]_vars

InitString == InitCase({"string"}, AllOptions)

SpecString == InitString /\ [][NextCase]_vars

InitEscape == InitCase({"escape", "hexEscape"}, {[recover |-> TRUE, size |-> DEFAULT_SIZE]})

SpecEscape == InitEscape /\ [][NextCase]_vars

InitLines == InitCase({"lines"}, AllOptions)

SpecLines == InitLines /\ [][NextCase]_vars

(***************************************************************************)
(* The base class Lexer (src/src/lexer.js).  The record lexer is one       *)
(* instance.  The class has no lexical states of its own: a subclass       *)
(* supplies them, and each may move to a state, call _fail, _reconsume or  *)
(* _token, or do nothing.  A grammar is one such subclass, over the states *)
(* $input, $word (after `a`) and $wordB (after `a`..`b`): its fields say   *)
(* what a state does with `b`, with `a` and with the end-of-input          *)
(* sentinel -1.  _error is <<>> while undefined and <<msg, line, column>>  *)
(* once set; done is the list of the arguments the completion callback of  *)
(* the last call received.  invoked, lexAfterError, signalled and          *)
(* finishCalls are history fields.  No state of a grammar sets _tokenValue *)
(* or _tokenMeta, which stay undefined.                                    *)
(***************************************************************************)
MaxFinish == 2

Grammars ==
  [inputB   : {"token", "fail"},
   inputEnd : {"nothing", "fail"},
   wordEnd  : {"token1", "fail"},
   wordBA   : {"word", "token2", "reconsume2"},
   wordBB   : {"token2", "fail"},
   wordBEnd : {"token2", "reconsume2", "fail"}]

\* new Lexer({ size }), of the subclass grammar
NewLexer(size, grammar) ==
  [ended |-> FALSE, error |-> <<>>, column |-> 0, lastCPWasCR |-> FALSE,
   length |-> 0, lex |-> "$input", line |-> 0, size |-> size,
   source |-> <<>>, positions |-> <<>>, tokenStart |-> 0,
   tokens |-> <<>>, tokensLength |-> 0, tokensSize |-> size,
   tokensCapacity |-> size * 2,
   grammar |-> grammar,
   done |-> <<>>, invoked |-> 0, lexAfterError |-> FALSE, signalled |-> 0,
   finishCalls |-> 0]

\* _fail(msg): start and end default to _tokenStart and _length; the line
\* and the column are those of the code point at end - 1
Lexer_fail(s, msg) ==
  LET index == 2 * (s.length - 1)
      At(i) == IF index < 0 THEN Undefined ELSE TARead(s.positions, 2 * s.size, i)
  IN [s EXCEPT !.error = <<msg, At(index), At(index + 1)>>]

RECURSIVE Lexer_lex(_, _)

\* for (let i = 0; i < n; i++) { this._lex(this._source[this._length++]);
\*                               if (this._error) break; }
RECURSIVE Lexer_refeed(_, _)
Lexer_refeed(s, n) ==
  IF n <= 0 THEN s
  ELSE LET Continue(a) == IF a.error # <<>> THEN a ELSE Lexer_refeed(a, n - 1)
       IN Continue(Lexer_lex([s EXCEPT !.length = @ + 1],
                             TARead(s.source, s.size, s.length)))

\* _reconsume(newState, n)
Lexer_reconsume(s, newState, n) ==
  IF s.ended
  THEN Lexer_lex(Lexer_refeed([s EXCEPT !.lex = newState,
                                        !.length = @ - (n - 1)], n - 1), -1)
  ELSE Lexer_refeed([s EXCEPT !.lex = newState, !.length = @ - n], n)

\* _token(value, remainder=0)
Lexer_token(s, value, remainder) ==
  LET actualLength == 2 * s.tokensLength
      Store(g) ==
        [g EXCEPT !.tokens = TAWrite(TAWrite(@, g.tokensCapacity, actualLength, value),
                                     g.tokensCapacity, actualLength + 1, s.tokenStart),
                  !.lex = "$input",
                  !.tokenStart = s.length - remainder,
                  !.tokensLength = @ + 1]
      Rest(t) ==
        IF remainder = 0 THEN t
        ELSE IF s.ended
        THEN Lexer_lex(Lexer_refeed([t EXCEPT !.length = @ - (remainder - 1)],
                                    remainder - 1), -1)
        ELSE Lexer_refeed([t EXCEPT !.length = @ - remainder], remainder)
  IN Rest(Store(IF actualLength = s.tokensSize
                THEN [s EXCEPT !.tokensSize = 2 * @, !.tokensCapacity = 2 * s.tokensSize]
                ELSE s))

\* this._lex(cp): the state method of the grammar that _lex names
Lexer_lex(s, cp) ==
  LET Do(m, op) ==
        CASE op = "nothing"    -> m
          [] op = "word"       -> [m EXCEPT !.lex = "$word"]
          [] op = "wordB"      -> [m EXCEPT !.lex = "$wordB"]
          [] op = "fail"       -> Lexer_fail(m, "unexpected code point")
          [] op = "token"      -> Lexer_token(m, 1, 0)
          [] op = "token1"     -> Lexer_token(m, 2, 1)
          [] op = "token2"     -> Lexer_token(m, 2, 2)
          [] op = "reconsume2" -> Lexer_reconsume(m, "$input", 2)
  IN Do([s EXCEPT !.invoked = @ + 1, !.lexAfterError = @ \/ s.error # <<>>],
        CASE s.lex = "$input" ->
               IF cp = 97 THEN "word" ELSE IF cp = -1 THEN s.grammar.inputEnd
               ELSE s.grammar.inputB
          [] s.lex = "$word" ->
               IF cp = 97 THEN "nothing" ELSE IF cp = -1 THEN s.grammar.wordEnd
               ELSE "wordB"
          [] s.lex = "$wordB" ->
               IF cp = 97 THEN s.grammar.wordBA ELSE IF cp = -1 THEN s.grammar.wordBEnd
               ELSE s.grammar.wordBB)

\* _write(buffer, enc, done), with _append(buffer) and the identity _normalize
Lexer_write(s, cps) ==
  LET cpCount == Len(cps)
      Grow(a) == IF a.size - a.length < cpCount
                 THEN [a EXCEPT !.size = 2 * Max(cpCount, a.size)]
                 ELSE a
      Set(a) == [a EXCEPT !.source =
                   [k \in 1..Max(Len(a.source), a.length + cpCount) |->
                      IF k > a.length /\ k <= a.length + cpCount THEN cps[k - a.length]
                      ELSE a.source[k]]]
      Position(a, cp, pIndex) ==
        LET Line(b) == IF b.lastCPWasCR /\ cp # 10
                       THEN [b EXCEPT !.line = @ + 1, !.column = 0]
                       ELSE b
            Note(b) == [b EXCEPT !.positions =
                          TAWrite(TAWrite(@, 2 * b.size, pIndex, b.line % 65536),
                                  2 * b.size, pIndex + 1, b.column % 65536),
                        !.lastCPWasCR = (cp = 13),
                        !.length = @ + 1]
        IN Note(Line(a))
      Advance(a, cp) ==
        IF cp \in {10, 8232, 8233}
        THEN [a EXCEPT !.line = @ + 1, !.column = 0]
        ELSE [a EXCEPT !.column = @ + 1]
      RECURSIVE Loop(_, _, _)
      Loop(a, i, pIndex) ==
        IF i > cpCount THEN [a EXCEPT !.done = Append(@, <<>>)]
        ELSE LET Continue(b) ==
                   IF b.error # <<>> THEN [b EXCEPT !.done = Append(@, b.error)]
                   ELSE Loop(Advance(b, cps[i]), i + 1, pIndex + 2)
             IN Continue(Lexer_lex(Position(a, cps[i], pIndex), cps[i]))
  IN IF s.error # <<>> THEN [s EXCEPT !.done = <<>>]
     ELSE IF s.ended
     THEN [s EXCEPT !.done = << <<"_write called after already in _ended state">> >>]
     ELSE Loop(Set(Grow([s EXCEPT !.done = <<>>])), 1, 2 * s.length)

\* _finish(done)
Lexer_finish(s) ==
  LET Done(a) == [a EXCEPT !.done = Append(@, a.error)]
  IN IF s.error # <<>> THEN [s EXCEPT !.done = <<>>, !.finishCalls = @ + 1]
     ELSE IF s.ended
     THEN [s EXCEPT !.done = << <<"_finish called after already in _ended state">> >>,
                    !.finishCalls = @ + 1]
     ELSE Done(Lexer_lex([s EXCEPT !.done = <<>>, !.finishCalls = @ + 1,
                                   !.ended = TRUE, !.signalled = @ + 1], -1))

InitLexer ==
  /\ mode = "lexer"
  /\ opts \in [size : Sizes]
  /\ lexer \in {NewLexer(opts.size, g) : g \in Grammars}
  /\ css = Undefined
  /\ input = <<>>
  /\ ended = FALSE

LexerWrite(chunk) ==
  /\ Len(input) + Len(chunk) <= MaxLen
  /\ lexer' = Lexer_write(lexer, chunk)
  /\ input' = input \o chunk
  /\ UNCHANGED <<css, opts, ended, mode>>

LexerFinish ==
  /\ lexer.finishCalls < MaxFinish
  /\ lexer' = Lexer_finish(lexer)
  /\ ended' = TRUE
  /\ UNCHANGED <<css, opts, input, mode>>

NextLexer ==
  \/ \E chunk \in UNION {[1..n -> {97, 98}] : n \in 1..MaxChunk} : LexerWrite(chunk)
  \/ LexerFinish

SpecLexer == InitLexer /\ [][NextLexer]_vars

(***************************************************************************)
(* Reading the token store, as the introspection methods do.               *)
(***************************************************************************)
NumTokens(s) == s.tokensLength \div 4

\* the tokens whose four slots lie inside the token array
TokIdx(s) == {i \in 0..(NumTokens(s) - 1) : 4 * i + 3 < 4 * s.capacity}

TokType(s, i) == tokenAt(s, 4 * i)

TokEnd(s, i) == tokenAt(s, 4 * i + 1)

TokA(s, i) == tokenAt(s, 4 * i + 2)

TokB(s, i) == tokenAt(s, 4 * i + 3)

TokStart(s, i) == IF i = 0 THEN 0 ELSE TokEnd(s, i - 1)

\* the source code points of token i
TokSource(s, i) == Subarray(s.source, s.capacity, TokStart(s, i), TokEnd(s, i), TRUE)

\* the decoded string value the slots [from, to) delimit
StringValueSlice(s, from, to) ==
  [k \in 1..Max(to - from, 0) |-> stringValueAt(s, from + k - 1)]

\* the numeric value stored for the NUMBER, PERCENTAGE or DIMENSION token i
NumericValue(s, i) ==
  LET ty      == TokType(s, i)
      isFloat == CASE ty = NUMBER_TOKEN -> TokA(s, i) = 1
                   [] ty = PERCENTAGE_TOKEN -> TRUE
                   [] OTHER -> stringValueAt(s, TokB(s, i)) = 1
      at      == CASE ty = NUMBER_TOKEN -> TokB(s, i)
                   [] ty = PERCENTAGE_TOKEN -> TokA(s, i)
                   [] OTHER -> stringValueAt(s, TokB(s, i) + 1)
  IN IF isFloat THEN <<"float", TARead(s.floatValues, s.capacity, at)>>
     ELSE <<"int", TARead(s.intValues, s.capacity, at)>>

\* the kinds of the tokens of the store, in emission order
TokenKinds(s) == [i \in 1..NumTokens(s) |-> TokType(s, i - 1)]

\* the decoded string value of token i (of a HASH token, slot a holds the
\* start doubled, plus the is-id flag)
DecodedValue(s, i) ==
  IF TokType(s, i) = HASH_TOKEN
  THEN StringValueSlice(s, TokA(s, i) \div 2, TokB(s, i))
  ELSE StringValueSlice(s, TokA(s, i), TokB(s, i))

\* what a consumer of the tokenizer reads: the tokens, the values the
\* emitted tokens own, and the errors
Observables(s) ==
  [ tokens       |-> [i \in 0..(s.tokensLength - 1) |-> tokenAt(s, i)],
    stringValues |-> [i \in 0..(s.stringValuesStart - 1) |-> stringValueAt(s, i)],
    intValues    |-> [i \in 0..(s.intValuesLength - 1) |-> TARead(s.intValues, s.capacity, i)],
    floatValues  |-> [i \in 0..(s.floatValuesLength - 1) |->
                        TARead(s.floatValues, s.capacity, i)],
    errors       |-> s.errors,
    error        |-> s.error,
    thrown       |-> s.thrown ]

(***************************************************************************)
(* Reference definitions the properties compare the tokenizer with.        *)
(***************************************************************************)
\* the whole input pushed as one chunk, then end-of-input
OneChunk(o, cps) == finish(write(NewCSSParser(o.recover, o.size), cps))

\* the normalization of an input: U+0000 to U+FFFD, FF and CR to LF, the LF
\* of a CR LF pair dropped
RECURSIVE Preprocess(_)
Preprocess(cps) ==
  IF cps = <<>> THEN <<>>
  ELSE LET c    == Head(cps)
           rest == Tail(cps)
       IN <<normalizeCP(c)>> \o
          Preprocess(IF c = 13 /\ rest # <<>> /\ Head(rest) = 10 THEN Tail(rest) ELSE rest)

\* a decoded value that begins with an identifier-start code point, or with
\* `-` and an identifier-start code point
ValueBeginsIdentifier(v) ==
  \/ Len(v) >= 1 /\ isNameStart(v[1])
  \/ Len(v) >= 2 /\ v[1] = 45 /\ isNameStart(v[2])

\* code points that would start an identifier: an identifier-start code
\* point; `\` not followed by U+000A; or `-` followed by an identifier-start
\* code point, by `-`, or by `\` not followed by U+000A
WouldStartIdentifier(t) ==
  LET c1 == IF Len(t) >= 1 THEN t[1] ELSE -1
      c2 == IF Len(t) >= 2 THEN t[2] ELSE -1
      c3 == IF Len(t) >= 3 THEN t[3] ELSE -1
  IN \/ isNameStart(c1)
     \/ c1 = 92 /\ c2 # 10
     \/ c1 = 45 /\ (isNameStart(c2) \/ c2 = 45 \/ (c2 = 92 /\ c3 # 10))

\* the value the source text of token i parses to, in the token's own kind
OwnNumericValue(s, i) ==
  LET v == parseFloat(TokSource(s, i))
  IN IF NumericValue(s, i)[1] = "float" THEN <<"float", v>> ELSE <<"int", ToInt32(v)>>

\* one of the 8 letter-casings of `url`
IsURLCasing(v) ==
  /\ Len(v) = 3
  /\ v[1] \in {117, 85}
  /\ v[2] \in {114, 82}
  /\ v[3] \in {108, 76}

\* the value of a hexadecimal digit
HexDigitValue(cp) ==
  IF cp >= 48 /\ cp <= 57 THEN cp - 48
  ELSE IF cp >= 65 /\ cp <= 70 THEN cp - 55
  ELSE cp - 87

\* the number a sequence of hexadecimal digits denotes
RECURSIVE HexNumber(_)
HexNumber(ds) ==
  IF ds = <<>> THEN 0
  ELSE 16 * HexNumber(SubSeq(ds, 1, Len(ds) - 1)) + HexDigitValue(ds[Len(ds)])

\* the code point an escape of that number decodes to
DecodedEscape(v) ==
  IF v = 0 \/ v > 1114111 \/ (v >= 55296 /\ v <= 57343) THEN 65533 ELSE v

(***************************************************************************)
(* The properties.                                                         *)
(***************************************************************************)

\* C1  Coverage: in recover mode, once every chunk is pushed and the end of
\* input signalled, the token ends partition the normalized source: they
\* never decrease and the last one is the number of code points stored
\* (with no token at all, nothing was stored).
C1_Coverage ==
  (ended /\ opts.recover /\ css.thrown = "none") =>
    /\ \A i \in TokIdx(css) : i > 0 => ~U32Less(TokEnd(css, i), TokEnd(css, i - 1))
    /\ (IF NumTokens(css) = 0 THEN 0 ELSE TokEnd(css, NumTokens(css) - 1))
         = Len(css.stored)

\* C2  Monotonicity: the ends recorded in the token store are strictly
\* increasing in emission order.
C2_Monotonicity ==
  \A i \in TokIdx(css) : i > 0 => U32Less(TokEnd(css, i - 1), TokEnd(css, i))

\* C3  Chunk-independence: however the input was cut into chunks, the
\* finished tokenizer holds the tokens, string values, numeric values and
\* errors of the same input pushed as one chunk.
C3_ChunkIndependence ==
  ended => Observables(css) = Observables(OneChunk(opts, input))

\* C4  Preprocessing: the code points _write stores and dispatches are the
\* reference normalization of the input pushed so far, for every chunking.
C4_Preprocessing ==
  (css.thrown = "none" /\ css.error = "undefined") => css.stored = Preprocess(input)

\* C5  Finalization: when end-of-input reaches a state that holds a token
\* in progress, that call emits a token or records a parse error.
C5_Finalization ==
  [][ (~ended /\ ended' /\ css.error = "undefined" /\ css.lex # "$input"
         /\ css'.thrown = "none")
      => \/ css'.tokensLength > css.tokensLength
         \/ Len(css'.errors) > Len(css.errors)
         \/ css'.error # "undefined" ]_vars

\* C6  Strict mode: once _error is set, no token is appended to the token
\* store and no lexical state is invoked.
C6_StrictStops ==
  ~opts.recover => (~css.tokenAfterError /\ ~css.lexAfterError)

\* C7  Recover mode: a parse error is never fatal: _error stays unset and
\* _fail returns after appending the error, so that _write and _finish run on.
C7_RecoverNeverFatal ==
  opts.recover => (css.error = "undefined" /\ css.thrown # "RangeError in _fail")

\* C8  (as stated) The is-id flag of every HASH token is 1 exactly when its
\* decoded value begins with an identifier-start code point, or with `-`
\* followed by an identifier-start code point.
C8_FlagFromDecodedValue ==
  \A i \in TokIdx(css) :
    TokType(css, i) = HASH_TOKEN =>
      ((TokA(css, i) % 2 = 1) <=>
         ValueBeginsIdentifier(StringValueSlice(css, TokA(css, i) \div 2, TokB(css, i))))

\* C8  (amended) The is-id flag of every HASH token is 1 exactly when the
\* code points that follow its `#` would start an identifier; every HASH
\* token of the store is one _addHashToken emitted.
C8_FlagFromSourceText ==
  /\ Cardinality({i \in TokIdx(css) : TokType(css, i) = HASH_TOKEN}) = Len(css.hashLog)
  /\ \A k \in 1..Len(css.hashLog) :
       LET at == css.hashLog[k][1]
       IN /\ tokenAt(css, at) = HASH_TOKEN
          /\ (tokenAt(css, at + 2) % 2 = 1) <=> WouldStartIdentifier(css.hashLog[k][2])

\* C8  witness: a HASH token emitted after `#--`, flagged as an id although
\* its value begins with neither an identifier-start code point nor `-` and one.
C8_Witness ==
  \E k \in 1..Len(css.hashLog) :
    /\ tokenAt(css, css.hashLog[k][1]) = HASH_TOKEN
    /\ tokenAt(css, css.hashLog[k][1] + 2) % 2 = 1
    /\ Len(css.hashLog[k][2]) >= 2
    /\ css.hashLog[k][2][1] = 45
    /\ css.hashLog[k][2][2] = 45

\* C9  Numeric values: the value stored for every NUMBER, PERCENTAGE and
\* DIMENSION token is the decimal parse of that token's own source text.
C9_NumericValueIsOwnText ==
  \A i \in TokIdx(css) :
    TokType(css, i) \in {NUMBER_TOKEN, PERCENTAGE_TOKEN, DIMENSION_TOKEN} =>
      NumericValue(css, i) = OwnNumericValue(css, i)

\* C10 URL recognition: after an identifier that is any letter-casing of
\* `url` and a `(`, the tokenizer is in the URL/function disambiguation
\* state with nothing emitted; after any other identifier and `(` it has
\* emitted FUNCTION.
C10_URLCaseInsensitive ==
  (/\ ~ended
   /\ css.thrown = "none"
   /\ Len(input) = 4
   /\ input[4] = 40
   /\ \A k \in 1..3 : input[k] \in {117, 85, 114, 82, 108, 76})
  => IF IsURLCasing(SubSeq(input, 1, 3))
     THEN css.lex = "$functionOrURL" /\ css.tokensLength = 0
     ELSE NumTokens(css) = 1 /\ TokType(css, 0) = FUNCTION_TOKEN

\* C11 url( then quote: after any letter-casing of `url`, `(`, k spaces and a
\* quote, the tokenizer has emitted FUNCTION "url" ending after the `(`, a
\* WHITESPACE token when k > 0, recorded no parse error and is reading an
\* ordinary string; once the string and a `)` have followed, the store ends
\* with STRING and RIGHT_PARENTHESIS and holds no URL or BAD_URL token.
C11_QuotedURLIsFunction ==
  \A k \in 0..(MaxTail - 1) :
    (/\ mode = "urlQuoted"
     /\ ~ended
     /\ Len(input) >= 5 + k
     /\ \A j \in 5..(4 + k) : input[j] = 32
     /\ input[5 + k] \in {34, 39})
    => /\ css.thrown = "none" /\ css.error = "undefined" /\ css.errors = <<>>
       /\ TokType(css, 0) = FUNCTION_TOKEN
       /\ TokEnd(css, 0) = 4
       /\ StringValueSlice(css, TokA(css, 0), TokB(css, 0)) = SubSeq(input, 1, 3)
       /\ k > 0 => (TokType(css, 1) = WHITESPACE_TOKEN /\ TokEnd(css, 1) = 4 + k)
       /\ Len(input) = 5 + k => css.lex = "$string"
       /\ (Len(input) = 7 + k /\ input[6 + k] = input[5 + k] /\ input[7 + k] = 41)
          => /\ NumTokens(css) = (IF k = 0 THEN 3 ELSE 4)
             /\ TokType(css, NumTokens(css) - 2) = STRING_TOKEN
             /\ TokType(css, NumTokens(css) - 1) = RIGHT_PARENTHESIS_TOKEN
             /\ \A i \in TokIdx(css) : TokType(css, i) \notin {URL_TOKEN, BAD_URL_TOKEN}

C13_NumbersTokens ==
  (mode = "numbers" /\ input = NumbersInput /\ ended) =>
    /\ TokenKinds(css) =
         <<DIMENSION_TOKEN, WHITESPACE_TOKEN, NUMBER_TOKEN, WHITESPACE_TOKEN,
           PERCENTAGE_TOKEN, WHITESPACE_TOKEN, IDENT_TOKEN>>
    /\ NumericValue(css, 0) = <<"int", 10>>
    /\ DecodedValue(css, 0) = <<112, 120>>
    /\ NumericValue(css, 2) = <<"float", <<-35, 1>>>>
    /\ NumericValue(css, 4) = <<"float", <<5, -1>>>>
    /\ DecodedValue(css, 6) = <<65, 66, 67>>

\* C14 `<!-- x --> /* c */ y` and end-of-input leave in the token store
\* CDO, WHITESPACE, IDENT "x", WHITESPACE, CDC, WHITESPACE, WHITESPACE,
\* IDENT "y", and no token of the COMMENT kind.
C14_CommentsTokens ==
  (mode = "comments" /\ input = CommentsInput /\ ended) =>
    /\ TokenKinds(css) =
         <<CDO_TOKEN, WHITESPACE_TOKEN, IDENT_TOKEN, WHITESPACE_TOKEN, CDC_TOKEN,
           WHITESPACE_TOKEN, WHITESPACE_TOKEN, IDENT_TOKEN>>
    /\ DecodedValue(css, 2) = <<120>>
    /\ DecodedValue(css, 7) = <<121>>

\* C15 (as stated) `"line\Abreak"` produces a single STRING token whose
\* decoded value is `line`, U+000A, `break`.
C15_EscapedStringAsStated ==
  (mode = "escapedString" /\ input = EscapedStringInput) =>
    /\ TokenKinds(css) = <<STRING_TOKEN>>
    /\ DecodedValue(css, 0) = <<108, 105, 110, 101, 10, 98, 114, 101, 97, 107>>

\* C15 (amended) `"line\Abreak"` produces a single STRING token whose
\* decoded value is `line`, U+00AB, `reak`: the `b` after `\A` is a
\* hexadecimal digit and belongs to the escape.  No error is recorded.
C15_EscapedString ==
  (mode = "escapedString" /\ input = EscapedStringInput) =>
    /\ TokenKinds(css) = <<STRING_TOKEN>>
    /\ TokEnd(css, 0) = 13
    /\ DecodedValue(css, 0) = <<108, 105, 110, 101, 171, 114, 101, 97, 107>>
    /\ css.errors = <<>> /\ css.error = "undefined" /\ css.thrown = "none"

\* C15 witness: the whole string pushed, its STRING token in the store
C15_Witness ==
  /\ mode = "escapedString" /\ input = EscapedStringInput
  /\ NumTokens(css) = 1
  /\ TokType(css, 0) = STRING_TOKEN

\* the decoded code points accumulated for the token in progress
PendingValue(s) == StringValueSlice(s, s.stringValuesStart, s.stringValuesLength)

\* this step pushes the single code point cp
PushesOne(cp) ==
  /\ ~ended'
  /\ Len(input') = Len(input) + 1
  /\ input'[Len(input')] = cp

C17_RejectedURLIsOneBadURL ==
  \A k \in 5..(4 + MaxTail) :
    (/\ mode = "urlRejected"
     /\ opts.recover
     /\ Len(input) >= k
     /\ \A j \in 5..(k - 1) : input[j] = 97
     /\ input[k] \in {1, 34, 40}
     /\ input[k] = 34 => k > 5
     /\ \A j \in (k + 1)..Len(input) : input[j] # 92
     /\ \A j \in (k + 1)..(Len(input) - 1) : input[j] # 41
     /\ css.thrown = "none")
    => /\ css.errors = <<"consume-url-token">>
       /\ css.stringValuesLength = 0
       /\ \A i \in TokIdx(css) : TokType(css, i) # URL_TOKEN
       /\ IF ended \/ (Len(input) > k /\ input[Len(input)] = 41)
          THEN TokenKinds(css) = <<BAD_URL_TOKEN>>
          ELSE TokenKinds(css) = <<>>

\* C18 Escape decoding: once `\` and k hexadecimal digits (1 <= k <= 6, upper
\* or lower case) have been pushed and the escape is over (k = 6, or a
\* non-hexadecimal code point or end-of-input follows), the code point
\* appended to the decoded value is the number the digits denote, with 0,
\* values above 0x10FFFF and surrogates replaced by U+FFFD; the escape
\* accumulator never holds more than 6 digits.
C18_EscapeDecoding ==
  /\ css.escapeCount <= 6
  /\ css.escapeCP <= 16777215
  /\ \A k \in 1..6 :
       (/\ mode = "escape"
        /\ Len(input) >= 1 + k
        /\ \A j \in 2..(1 + k) : isHex(input[j])
        /\ \/ k = 6
           \/ Len(input) >= 2 + k /\ ~isHex(input[2 + k])
           \/ Len(input) = 1 + k /\ ended)
       => /\ css.stringValuesLength >= 1
          /\ stringValueAt(css, 0) = DecodedEscape(HexNumber(SubSeq(input, 2, 1 + k)))

\* C18 witness: `\10ffff` pushed, the escape over at its sixth digit and
\* U+10FFFF appended to the decoded value
C18_Witness ==
  /\ input = <<92, 49, 48, 102, 102, 102, 102>>
  /\ css.escapeCount = 6
  /\ stringValueAt(css, 0) = 1114111

\* the (line, column) after the code points cps, counting as line ends the
\* code points of the set ends
RECURSIVE LineColumn(_, _)
LineColumn(cps, ends) ==
  IF cps = <<>> THEN <<0, 0>>
  ELSE LET before == LineColumn(SubSeq(cps, 1, Len(cps) - 1), ends)
       IN IF cps[Len(cps)] \in ends THEN <<before[1] + 1, 0>>
          ELSE <<before[1], before[2] + 1>>

\* the (line, column) recorded for the source index i
PositionAt(s, i) ==
  <<TARead(s.positions, 2 * s.capacity, 2 * i),
    TARead(s.positions, 2 * s.capacity, 2 * i + 1)>>

StoredAgain(cps) == write(NewCSSParser(TRUE, DEFAULT_SIZE), cps).stored

\* C20 Normalization idempotence: pushing the stored (normalized) source
\* through the stream preprocessing of _write again stores the identical
\* code point sequence.
C20_NormalizationIdempotent ==
  css.thrown = "none" => StoredAgain(css.stored) = css.stored

\* C20 witness: an input the preprocessing changed (a carriage return and a
\* U+0000 in it), stored in normalized form
C20_Witness ==
  /\ Len(input) = 3
  /\ input[1] = 13
  /\ input[3] = 0
  /\ css.stored = <<10, input[2], 65533>>
  /\ StoredAgain(css.stored) = css.stored

\* C21 Emitted tokens are immutable: no step (a chunk pushed, with its
\* re-fed code points and buffer growth, or end-of-input) changes the value
\* read from any slot below the token count, and the token count never
\* decreases.
C21_EmittedTokensImmutable ==
  [][ /\ css'.tokensLength >= css.tokensLength
      /\ \A i \in 0..(css.tokensLength - 1) : tokenAt(css', i) = tokenAt(css, i) ]_vars

\* C21 witness: tokens emitted before and after the buffers grew
C21_Witness ==
  /\ opts.size = 1
  /\ Len(input) = 4
  /\ css.capacity > 2
  /\ NumTokens(css) >= 3
  /\ \A i \in 0..(NumTokens(css) - 1) : TokType(css, i) = SEMICOLON_TOKEN

\* C22 The string-value watermark: _stringValuesStart never decreases, it is
\* never above _stringValuesLength, and the slice of every emitted token (with
\* the two trailing entries of a DIMENSION) lies below it and keeps its content.
C22_StringValueWatermark ==
  [][LET Sliced == {AT_KEYWORD_TOKEN, BAD_STRING_TOKEN, BAD_URL_TOKEN, DIMENSION_TOKEN,
                    FUNCTION_TOKEN, HASH_TOKEN, IDENT_TOKEN, STRING_TOKEN, URL_TOKEN}
         SliceStart(s, i) == IF TokType(s, i) = HASH_TOKEN THEN TokA(s, i) \div 2
                             ELSE TokA(s, i)
         SliceEnd(s, i) == IF TokType(s, i) = DIMENSION_TOKEN THEN TokB(s, i) + 2
                           ELSE TokB(s, i)
         Below(s) == /\ s.stringValuesStart <= s.stringValuesLength
                     /\ \A i \in TokIdx(s) : TokType(s, i) \in Sliced =>
                          /\ SliceStart(s, i) <= TokB(s, i)
                          /\ SliceEnd(s, i) <= s.stringValuesStart
     IN /\ Below(css)
        /\ Below(css')
        /\ css'.stringValuesStart >= css.stringValuesStart
        /\ \A i \in TokIdx(css) : TokType(css, i) \in Sliced =>
             StringValueSlice(css', SliceStart(css, i), SliceEnd(css, i))
               = StringValueSlice(css, SliceStart(css, i), SliceEnd(css, i)) ]_vars

\* C22 witness: a DIMENSION whose unit and two numeric entries lie below the
\* watermark while the next identifier's value is written above it
C22_Witness ==
  /\ input = <<49, 101, 32, 101>>
  /\ NumTokens(css) = 2
  /\ TokType(css, 0) = DIMENSION_TOKEN
  /\ StringValueSlice(css, TokA(css, 0), TokB(css, 0)) = <<101>>
  /\ css.stringValuesStart = TokB(css, 0) + 2
  /\ css.stringValuesLength > css.stringValuesStart

\* C23 Every emitted DELIM spans exactly one source code point: its end is its
\* predecessor's end plus one, and its slot a is that code point.
C23_DelimSpansOneCodePoint ==
  \A i \in TokIdx(css) : TokType(css, i) = DELIM_TOKEN =>
    /\ TokEnd(css, i) = TokStart(css, i) + 1
    /\ TokA(css, i) = TARead(css.source, css.capacity, TokStart(css, i))

\* C24 Reconsumption replays everything: a token helper called with an offset
\* n >= 1 dispatches exactly the n code points before the cursor, once each and
\* in order, and leaves the cursor where it was.
C24_ReconsumptionReplaysAll ==
  \A rec \in css.reconsumed : rec.offset >= 1 =>
    /\ rec.fed = [k \in 1..rec.offset |-> k - 1 - rec.offset]
    /\ rec.cursor = 0

\* C25 Reconsumption is bounded: the offset passed to a token helper is
\* between 1 and 3.
C25_ReconsumptionBounded ==
  \A rec \in css.reconsumed : rec.offset \in 1..3

\* C26 After a hexadecimal escape of 1 to 6 digits a single following
\* whitespace code point (U+0009, U+000A, U+0020) belongs to the escape: it is
\* not appended to the value, yields no WHITESPACE token and ends no token;
\* any other code point is processed by the state the escape began in.
C26_WhitespaceEndsHexEscape ==
  \A o \in Openings("hexEscape") :
    (/\ mode = "hexEscape"
     /\ ~ended
     /\ IsPrefix(o, input)
     /\ Len(input) = Len(o) + 1
     /\ ~isHex(input[Len(input)]))
    => LET inString == o[1] = 34
           digits   == SubSeq(o, IF inString THEN 3 ELSE 2, Len(o))
           decoded  == DecodedEscape(HexNumber(digits))
           cp       == input[Len(input)]
       IN CASE cp \in {9, 10, 32} ->
                 /\ NumTokens(css) = 0
                 /\ PendingValue(css) = <<decoded>>
                 /\ css.lex = IF inString THEN "$string" ELSE "$ident"
            [] cp = 103 \/ inString ->
                 /\ NumTokens(css) = 0
                 /\ PendingValue(css) = <<decoded, cp>>
                 /\ css.lex = IF inString THEN "$string" ELSE "$ident"
            [] OTHER ->
                 /\ NumTokens(css) = 2
                 /\ TokType(css, 0) = IDENT_TOKEN
                 /\ TokEnd(css, 0) = Len(o)
                 /\ StringValueSlice(css, TokA(css, 0), TokB(css, 0)) = <<decoded>>
                 /\ TokType(css, 1) = SEMICOLON_TOKEN

\* C27 A backslash followed by U+000A never starts an identifier-like token:
\* at the start of an identifier (also after a leading `-`) or of a hash, with
\* errors recovered from, the code points before the backslash are emitted as
\* DELIMs, the backslash as DELIM 0x5C, and the line feed begins whitespace.
C27_BackslashLineFeedIsDelim ==
  \A before \in {<<>>, <<45>>, <<35>>} :
    (opts.recover /\ ~ended /\ input = before \o <<92, 10>>)
    => /\ NumTokens(css) = Len(before) + 1
       /\ \A i \in 0..Len(before) :
            /\ TokType(css, i) = DELIM_TOKEN
            /\ TokEnd(css, i) = i + 1
            /\ TokA(css, i) = input[i + 1]
       /\ css.lex = "$whitespace"

\* C28 The bad-URL state is never entered silently: a step that takes the
\* parser from outside the bad-URL states ($badURL and its escape state) into
\* $badURL records a parse error.
C28_BadURLRecordsError ==
  [][ (css.lex \notin {"$badURL", "$badURLEscape"} /\ css'.lex = "$badURL")
        => \/ Len(css'.errors) > Len(css.errors)
           \/ css'.error # css.error ]_vars

\* C29 No buffer write is dropped: whatever the declared size, every buffer's
\* length stays within the capacity, and after the end call the end sentinel
\* is stored at the cursor.
C29_NoWriteDropped ==
  /\ css.sourceLength <= css.capacity
  /\ css.positionsLength <= 2 * css.capacity
  /\ css.tokensLength <= 4 * css.capacity
  /\ css.stringValuesLength <= css.capacity
  /\ css.intValuesLength <= css.capacity
  /\ css.floatValuesLength <= css.capacity
  /\ (ended /\ css.error = "undefined" /\ css.thrown = "none")
       => TARead(css.source, css.capacity, css.sourceLength) = EOF_SENTINEL

\* C30 The float flag of every NUMBER and DIMENSION token is set exactly when
\* the numeric part of its source text has a fraction (`.` and a digit) or an
\* exponent (`e` or `E`, an optional sign, a digit); the value is then an
\* entry of the float buffer, otherwise of the integer buffer; the value of a
\* PERCENTAGE is always an entry of the float buffer.
C30_FloatFlagFromSourceText ==
  \A i \in TokIdx(css) :
    LET t == TokSource(css, i)
        At(k) == IF k >= 1 /\ k <= Len(t) THEN t[k] ELSE -1
        first == IF At(1) \in {43, 45} THEN 2 ELSE 1
        \* t[first..k-1] is digits, or digits, `.` and at least one digit
        Digits(a, b) == \A j \in a..b : isDigit(At(j))
        Mantissa(k) ==
          \/ k > first /\ Digits(first, k - 1)
          \/ \E d \in first..(k - 2) :
               At(d) = 46 /\ Digits(first, d - 1) /\ Digits(d + 1, k - 1)
        Fraction == \E d \in first..Len(t) :
                      At(d) = 46 /\ Digits(first, d - 1) /\ isDigit(At(d + 1))
        Exponent == \E k \in 1..Len(t) :
                      /\ At(k) \in {101, 69}
                      /\ Mantissa(k)
                      /\ \/ isDigit(At(k + 1))
                         \/ At(k + 1) \in {43, 45} /\ isDigit(At(k + 2))
        flag == IF TokType(css, i) = NUMBER_TOKEN THEN TokA(css, i)
                ELSE stringValueAt(css, TokB(css, i))
        at   == IF TokType(css, i) = NUMBER_TOKEN THEN TokB(css, i)
                ELSE stringValueAt(css, TokB(css, i) + 1)
    IN /\ TokType(css, i) \in {NUMBER_TOKEN, DIMENSION_TOKEN} =>
            /\ flag = (IF Fraction \/ Exponent THEN 1 ELSE 0)
            /\ at >= 0
            /\ at < (IF flag = 1 THEN css.floatValuesLength ELSE css.intValuesLength)
       /\ TokType(css, i) = PERCENTAGE_TOKEN =>
            (TokA(css, i) >= 0 /\ TokA(css, i) < css.floatValuesLength)

\* C31 `<!--` yields one CDO token and `-->` one CDC token; when a proper
\* prefix of either (`<`, `<!`, `<!-`, `-`, `--`) is followed by a code point
\* that does not continue the match, every code point of the prefix is
\* emitted as a DELIM of its own.
C31_CDOAndCDCOrDelims ==
  (mode = "markup" /\ ~ended /\ css.thrown = "none" /\ css.error = "undefined") =>
    /\ input = <<60, 33, 45, 45>> =>
         (NumTokens(css) = 1 /\ TokType(css, 0) = CDO_TOKEN /\ TokEnd(css, 0) = 4)
    /\ input = <<45, 45, 62>> =>
         (NumTokens(css) = 1 /\ TokType(css, 0) = CDC_TOKEN /\ TokEnd(css, 0) = 3)
    /\ \A match \in {<<60, 33, 45, 45>>, <<45, 45, 62>>} :
         \A n \in 1..(Len(match) - 1) :
           (/\ Len(input) = n + 1
            /\ SubSeq(input, 1, n) = SubSeq(match, 1, n)
            /\ input[n + 1] # match[n + 1])
           => /\ NumTokens(css) >= n
              /\ \A i \in 0..(n - 1) :
                   /\ TokType(css, i) = DELIM_TOKEN
                   /\ TokEnd(css, i) = i + 1
                   /\ TokA(css, i) = match[i + 1]

\* C32 A maximal run of whitespace yields exactly one WHITESPACE token: no
\* two consecutive tokens of the store are both WHITESPACE, no WHITESPACE
\* token is zero-width, and a WHITESPACE token covers whitespace only.
C32_OneWhitespaceTokenPerRun ==
  \A i \in TokIdx(css) : TokType(css, i) = WHITESPACE_TOKEN =>
    /\ TokEnd(css, i) > TokStart(css, i)
    /\ i > 0 => TokType(css, i - 1) # WHITESPACE_TOKEN
    /\ \A k \in 1..Len(TokSource(css, i)) : TokSource(css, i)[k] \in {9, 10, 32}

\* C34 The end sentinel never becomes token content: 0x110000 is never in
\* the string-value buffer, and no token ends beyond the normalized code
\* points received.
C34_SentinelIsNotContent ==
  /\ \A k \in 0..(css.stringValuesLength - 1) : stringValueAt(css, k) # EOF_SENTINEL
  /\ \A i \in TokIdx(css) : TokEnd(css, i) <= Len(css.stored)

\* C35 The size option is only a capacity hint: the same input pushed as one
\* chunk and ended under any two sizes (0, 1, the exact input length, the
\* default) leaves the same tokens, string values, numeric values, positions
\* and errors.
C35_SizeIsOnlyAHint ==
  ended =>
    \A size \in Sizes \cup {Len(input)} :
      LET Run(sz) == OneChunk([recover |-> opts.recover, size |-> sz], input)
          Positions(s) == [i \in 0..(s.positionsLength - 1) |->
                             TARead(s.positions, 2 * s.capacity, i)]
      IN /\ Observables(Run(size)) = Observables(Run(DEFAULT_SIZE))
         /\ Positions(Run(size)) = Positions(Run(DEFAULT_SIZE))

\* C36 The decoded value of every IDENT token whose source text holds no
\* backslash is that source text, code point for code point, whatever was
\* emitted or recorded before it.
C36_IdentValueIsSourceText ==
  \A i \in TokIdx(css) :
    (/\ TokType(css, i) = IDENT_TOKEN
     /\ \A k \in 1..Len(TokSource(css, i)) : TokSource(css, i)[k] # 92)
    => DecodedValue(css, i) = TokSource(css, i)

\* C37 Transient token flags do not leak between tokens: in recover mode,
\* whenever the current state is $input, the numeric-token-is-float flag and
\* the hash-token-is-id flag are both false.
C37_FlagsClearedInInitialState ==
  (opts.recover /\ css.lex = "$input") =>
    (~css.numericTokenIsFloat /\ ~css.hashTokenIsID)

\* C37 witness: `.1%` in recover mode: the float flag was set at the fraction
\* and the parser is back in $input after the PERCENTAGE token
C37_Witness ==
  /\ opts.recover
  /\ input = <<46, 49, 37>>
  /\ css.lex = "$input"
  /\ NumTokens(css) = 1
  /\ TokType(css, 0) = PERCENTAGE_TOKEN

\* C38 Processing terminates: the chain of state invocations and nested
\* re-feeds that one code point triggers is finite, so no call of _write or
\* _finish ends with the call stack exhausted.
C38_ReconsumptionTerminates ==
  css.thrown # "RangeError: Maximum call stack size exceeded"

\* C40 Every call of _write or _finish that returns invokes its completion
\* callback exactly once, also when an error has been recorded before the
\* call.
C40_CallbackExactlyOnce ==
  [][css'.thrown = "none" => css'.doneCalls = 1]_vars

\* C39 In the base Lexer errors are terminal: once _fail has recorded an
\* error no state method is invoked again, neither for the rest of a chunk,
\* nor for code points that _reconsume or _token still have to re-feed, nor
\* for their end-of-input re-signal, nor by a later _write or _finish.
C39_ErrorsAreTerminal ==
  ~lexer.lexAfterError

\* C33 In the base Lexer end-of-input is delivered exactly once: the first
\* _finish sets _ended and invokes the current state with the sentinel once;
\* every later _write or _finish invokes no state, leaves the source, the
\* positions and the tokens as they are, and passes an 'already in _ended
\* state' error to its callback.
C33_EndOfInputDeliveredOnce ==
  [][LET finishCall == lexer'.finishCalls = lexer.finishCalls + 1
         Already(call) == <<call \o " called after already in _ended state">>
     IN /\ (finishCall /\ ~lexer.ended) => (lexer'.ended /\ lexer'.signalled = 1)
        /\ lexer.ended =>
             /\ lexer'.invoked = lexer.invoked
             /\ lexer'.source = lexer.source
             /\ lexer'.positions = lexer.positions
             /\ lexer'.tokens = lexer.tokens
             /\ lexer'.tokensLength = lexer.tokensLength
             /\ lexer'.done = <<Already(IF finishCall THEN "_finish" ELSE "_write")>>]_vars

====
